---- MODULE Spec2Model ----
(***************************************************************************)
(* The concurrent probing engine of the port scanner: main's start-up      *)
(* (resume handling, empty-target check), the producer goroutine, the      *)
(* scanner workers, the interrupt handler goroutine, the reporter and      *)
(* main's shutdown sequence.  Channels are bounded FIFO queues; a Go       *)
(* select with several ready cases is a nondeterministic choice between    *)
(* them (one action per case).                                             *)
(*                                                                         *)
(* A task is carried through the queues as the position `id` of the target *)
(* in the run's target list, so that two equal targets of a list with      *)
(* duplicates stay distinguishable; the value Go copies through the        *)
(* channel is targets[id].                                                 *)
(***************************************************************************)
EXTENDS Integers, Sequences, FiniteSets, TLC

\* ---------------------------------------------------------------- bounds
MaxTargets == 2
MaxQueue == 2
NumWorkers == 2

Workers == 1..NumWorkers

\* ------------------------------------------------------------ data model
\* models.ScanTarget: the address string is abstracted to a host number.
ScanTarget(ip, port) == [IP |-> ip, Port |-> port]

StatusOpen == "OPEN"
StatusClosed == "CLOSED"
StatusFiltered == "FILTERED"
StatusError == "ERROR"
StatusDryRun == "DRYRUN"
ScanStatus == {StatusOpen, StatusClosed, StatusFiltered, StatusError, StatusDryRun}

CSVHeader == <<"timestamp", "dst_ip", "dst_port", "status", "latency_ms">>

\* The resume path used when one is configured.
ResumePath == "checkpoint.json"

\* The host number of the loopback address 127.0.0.1.
Loopback == 127

\* The i-th target of an enumerated list: host i, port 80.
Tgt(i) == ScanTarget(i, 80)
DistinctList(n) == [i \in 1..n |-> Tgt(i)]
\* A list in which the same target occurs twice.
DupList == <<Tgt(1), Tgt(1)>>
TargetLists == {DistinctList(n) : n \in 1..MaxTargets} \cup {DupList}

\* What net.Dialer.DialContext answers for an address: the network is an
\* environment fixed for the run, one outcome per host.
\* Host 0 stands for an address string that is not an IP address; dialing it
\* fails at once with an address error, which is not a timeout.
DialOutcome(target) ==
    CASE target.IP = 0 -> "badaddr"
      [] target.IP % 3 = 1 -> "ok"
      [] target.IP % 3 = 2 -> "timeout"
      [] OTHER -> "refused"

\* The time the dial of an address takes, in ticks: positive, and the whole
\* timeout when the dial times out.
DialLatency(target) ==
    CASE DialOutcome(target) = "timeout" -> 2
      [] OTHER -> 1

Range(s) == {s[i] : i \in 1..Len(s)}
IsDupFree(s) == \A i, j \in 1..Len(s) : s[i] = s[j] => i = j

VARIABLES
    cfg,            \* *config.Config: QueueSize, ResumeFile, DryRun, Ping, Workers
    inputTargets,   \* what ParseIPs/ParsePorts/CreateTargets make of --ip/--port
    ckptFile,       \* the checkpoint file on disk
    targets,        \* main's targets slice
    mainPC,         \* position of main
    cancelled,      \* ctx.Done() is closed
    taskQueue,      \* buffered items of taskQueue
    taskClosed,     \* close(taskQueue) has happened
    resultsChan,    \* buffered items of resultsChan
    resultsClosed,  \* close(resultsChan) has happened
    prodPC,         \* position of the producer goroutine
    prodIdx,        \* index of the next target the producer sends
    wPC,            \* position of each worker
    wTarget,        \* the task a worker holds (0: none)
    wResult,        \* the result a worker holds before publishing
    hPC,            \* position of the interrupt handler goroutine
    remaining,      \* the handler's remaining slice
    rPC,            \* position of the reporter
    output,         \* records the reporter has written, in order
    dequeued,       \* history: ids received from taskQueue by a worker
    pubCount,       \* history: number of results sent to resultsChan per id
    atCancel,       \* history: dispatched / being probed / queued ids when cancel() ran
    saveCalls,      \* history: the snapshots handed to checkpoint.SaveState
    netCalls,       \* history: network calls made (prefilter ping, ids scanned)
    unit            \* the component driven on its own, when the run is not main's

vars == <<cfg, inputTargets, ckptFile, targets, mainPC, cancelled, taskQueue,
          taskClosed, resultsChan, resultsClosed, prodPC, prodIdx, wPC,
          wTarget, wResult, hPC, remaining, rPC, output, dequeued, pubCount,
          atCancel, saveCalls, netCalls, unit>>

NoResult == [id |-> 0]
\* The value of unit in a run of main: no component is driven on its own.
NoUnit == [kind |-> "program"]

\* The process is running as long as the reporter has not called os.Exit(1)
\* (Reporter.Run 30-37); after the exit no goroutine takes a step.
Running == rPC # "exit1"
NoTask == 0

\* ------------------------------------------------------------ checkpoint
\* checkpoint.LoadState: the targets of the snapshot, or an error when the
\* file is missing or cannot be parsed.
LoadState(file) ==
    IF file.state = "valid"
    THEN [err |-> FALSE, targets |-> file.remaining]
    ELSE [err |-> TRUE, targets |-> <<>>]

\* checkpoint.SaveState: the file holds the snapshot when the write succeeds
\* and is left as it was when it fails.
SaveState(rem, file, ok) ==
    IF ok THEN [state |-> "valid", remaining |-> rem] ELSE file

\* ------------------------------------------------------------------ Init
\* Real scans with every queue capacity, fresh and resumed; dry runs as fresh
\* scans with the smallest queue.  Every run is given --ping, the case in
\* which the prefilter has to be decided; the address list of a run is the
\* one left after the prefilter.
\* LoadErr is the error of config.Load (main.go 26-27); the other fields of
\* the one configuration that failed to load are never read.
Configs ==
    [QueueSize : 1..MaxQueue, ResumeFile : {"", ResumePath},
     DryRun : {FALSE}, Ping : {TRUE}, Workers : {NumWorkers}, LoadErr : {FALSE}]
    \cup [QueueSize : {1}, ResumeFile : {""},
          DryRun : {TRUE}, Ping : {TRUE}, Workers : {NumWorkers},
          LoadErr : {FALSE}]
    \cup [QueueSize : {1}, ResumeFile : {""},
          DryRun : {FALSE}, Ping : {TRUE}, Workers : {NumWorkers},
          LoadErr : {TRUE}]

Inputs ==
    {[err |-> TRUE, targets |-> <<>>], [err |-> FALSE, targets |-> <<>>]}
    \cup {[err |-> FALSE, targets |-> l] : l \in TargetLists}

CkptFiles ==
    {[state |-> "missing", remaining |-> <<>>],
     [state |-> "corrupt", remaining |-> <<>>],
     [state |-> "valid", remaining |-> <<>>]}
    \cup {[state |-> "valid", remaining |-> l] : l \in TargetLists}

Init ==
    /\ cfg \in Configs
    /\ inputTargets \in Inputs
    /\ ckptFile \in CkptFiles
    \* the input that the chosen branch of the resume handling never reads
    \* is fixed: the file without --resume, the address/port input when the
    \* snapshot loads
    /\ cfg.ResumeFile = "" => ckptFile.state = "missing"
    /\ cfg.LoadErr => inputTargets = [err |-> FALSE, targets |-> <<>>]
    /\ (cfg.ResumeFile # "" /\ ckptFile.state = "valid") =>
          inputTargets = [err |-> FALSE, targets |-> DistinctList(1)]
    /\ targets = <<>>
    /\ mainPC = "start"
    /\ cancelled = FALSE
    /\ taskQueue = <<>>
    /\ taskClosed = FALSE
    /\ resultsChan = <<>>
    /\ resultsClosed = FALSE
    /\ prodPC = "idle"
    /\ prodIdx = 1
    /\ wPC = [w \in Workers |-> "idle"]
    /\ wTarget = [w \in Workers |-> NoTask]
    /\ wResult = [w \in Workers |-> NoResult]
    /\ hPC = "idle"
    /\ remaining = <<>>
    /\ rPC = "idle"
    /\ output = <<>>
    /\ dequeued = {}
    /\ pubCount = [i \in 1..MaxTargets |-> 0]
    /\ atCancel = [set |-> FALSE, dequeued |-> {}, probing |-> {}, queued |-> {}]
    /\ saveCalls = <<>>
    /\ netCalls = [ping |-> FALSE, scans |-> {}]
    /\ unit = NoUnit

\* ------------------------------------------------------------------ main
\* main.go 48-97: the target list main ends up with.
ResolveTargets(c, file, input) ==
    IF c.ResumeFile # ""
    THEN LET r == LoadState(file)
         IN IF r.err THEN [exit |-> FALSE, targets |-> <<>>]
                     ELSE [exit |-> FALSE, targets |-> r.targets]
    ELSE IF input.err THEN [exit |-> TRUE, targets |-> <<>>]
                      ELSE [exit |-> FALSE, targets |-> input.targets]

\* main.go 64 and 83-87: FilterReachableHosts pings the hosts only on a fresh
\* scan with --ping that is not a dry run.
PrefilterRuns(c) == c.ResumeFile = "" /\ c.Ping /\ ~c.DryRun

\* Mutant of MainStart: the reporter is started before the configuration
\* and the target list are checked.
MainStartReporterFirst ==
    /\ mainPC = "start"
    /\ netCalls' = [netCalls EXCEPT
                     !.ping = ~cfg.LoadErr /\ PrefilterRuns(cfg) /\ ~inputTargets.err]
    /\ rPC' = "create"
    /\ LET r == ResolveTargets(cfg, ckptFile, inputTargets)
       IN IF cfg.LoadErr
          THEN /\ mainPC' = "exit1"
               /\ targets' = <<>>
               /\ UNCHANGED <<prodPC, wPC, hPC>>
          ELSE IF r.exit \/ Len(r.targets) = 0
          THEN /\ mainPC' = "exit1"
               /\ targets' = r.targets
               /\ UNCHANGED <<prodPC, wPC, hPC>>
          ELSE /\ mainPC' = "wait_workers"
               /\ targets' = r.targets
               /\ prodPC' = "feed"
               /\ wPC' = [w \in Workers |-> "select"]
               /\ hPC' = "wait"
    /\ UNCHANGED <<cfg, inputTargets, ckptFile, cancelled, taskQueue, taskClosed,
                   resultsChan, resultsClosed, prodIdx, wTarget, wResult,
                   remaining, output, dequeued, pubCount, atCancel, saveCalls, unit>>

\* main.go 26-126: start-up until every goroutine has been started, or the
\* fatal exit.
MainStart ==
    /\ mainPC = "start"
    /\ netCalls' = [netCalls EXCEPT
                     !.ping = ~cfg.LoadErr /\ PrefilterRuns(cfg) /\ ~inputTargets.err]
    /\ LET r == ResolveTargets(cfg, ckptFile, inputTargets)
       IN IF cfg.LoadErr
          THEN /\ mainPC' = "exit1"
               /\ targets' = <<>>
               /\ UNCHANGED <<prodPC, wPC, hPC, rPC>>
          ELSE IF r.exit \/ Len(r.targets) = 0
          THEN /\ mainPC' = "exit1"
               /\ targets' = r.targets
               /\ UNCHANGED <<prodPC, wPC, hPC, rPC>>
          ELSE /\ mainPC' = "wait_workers"
               /\ targets' = r.targets
               /\ prodPC' = "feed"
               /\ wPC' = [w \in Workers |-> "select"]
               /\ hPC' = "wait"
               /\ rPC' = "create"
    /\ UNCHANGED <<cfg, inputTargets, ckptFile, cancelled, taskQueue, taskClosed,
                   resultsChan, resultsClosed, prodIdx, wTarget, wResult,
                   remaining, output, dequeued, pubCount, atCancel, saveCalls, unit>>

\* Mutant of MainWaitWorkers: main goes on without waiting for the workers.
MainWaitWorkersNoWait ==
    /\ Running
    /\ mainPC = "wait_workers"
    /\ mainPC' = "wait_interrupt"
    /\ UNCHANGED <<cfg, inputTargets, ckptFile, targets, cancelled, taskQueue,
                   taskClosed, resultsChan, resultsClosed, prodPC, prodIdx, wPC,
                   wTarget, wResult, hPC, remaining, rPC, output, dequeued,
                   pubCount, atCancel, saveCalls, netCalls, unit>>

\* main.go 172: wg.Wait() returns once every worker has returned.
MainWaitWorkers ==
    /\ Running
    /\ mainPC = "wait_workers"
    /\ \A w \in Workers : wPC[w] = "done"
    /\ mainPC' = "wait_interrupt"
    /\ UNCHANGED <<cfg, inputTargets, ckptFile, targets, cancelled, taskQueue,
                   taskClosed, resultsChan, resultsClosed, prodPC, prodIdx, wPC,
                   wTarget, wResult, hPC, remaining, rPC, output, dequeued,
                   pubCount, atCancel, saveCalls, netCalls, unit>>

\* main.go 173-175: interruptWg.Wait() returns once the interrupt handler
\* goroutine has returned; then close(resultsChan).
MainCloseResults ==
    /\ Running
    /\ mainPC = "wait_interrupt"
    /\ hPC = "done"
    /\ resultsClosed' = TRUE
    /\ mainPC' = "wait_reporter"
    /\ UNCHANGED <<cfg, inputTargets, ckptFile, targets, cancelled, taskQueue,
                   taskClosed, resultsChan, prodPC, prodIdx, wPC, wTarget,
                   wResult, hPC, remaining, rPC, output, dequeued, pubCount,
                   atCancel, saveCalls, netCalls, unit>>

\* main.go 176-178: reporterWg.Wait() returns, main returns.
MainReturn ==
    /\ Running
    /\ mainPC = "wait_reporter"
    /\ rPC = "done"
    /\ mainPC' = "done"
    /\ UNCHANGED <<cfg, inputTargets, ckptFile, targets, cancelled, taskQueue,
                   taskClosed, resultsChan, resultsClosed, prodPC, prodIdx, wPC,
                   wTarget, wResult, hPC, remaining, rPC, output, dequeued,
                   pubCount, atCancel, saveCalls, netCalls, unit>>

\* -------------------------------------------------------------- producer
\* Mutant of ProducerSend: the send goes through while the queue holds up to
\* its capacity, one target more than it has room for.
ProducerSendOffByOne ==
    /\ Running
    /\ prodPC = "feed"
    /\ prodIdx <= Len(targets)
    /\ Len(taskQueue) <= cfg.QueueSize
    /\ taskQueue' = Append(taskQueue, prodIdx)
    /\ prodIdx' = prodIdx + 1
    /\ UNCHANGED <<cfg, inputTargets, ckptFile, targets, mainPC, cancelled,
                   taskClosed, resultsChan, resultsClosed, prodPC, wPC, wTarget,
                   wResult, hPC, remaining, rPC, output, dequeued, pubCount,
                   atCancel, saveCalls, netCalls, unit>>

\* Mutant of ProducerSend: a send to a full queue overwrites the oldest
\* target instead of waiting for room.
ProducerSendOverwritesWhenFull ==
    /\ Running
    /\ prodPC = "feed"
    /\ prodIdx <= Len(targets)
    /\ taskQueue' = IF Len(taskQueue) < cfg.QueueSize
                    THEN Append(taskQueue, prodIdx)
                    ELSE Append(Tail(taskQueue), prodIdx)
    /\ prodIdx' = prodIdx + 1
    /\ UNCHANGED <<cfg, inputTargets, ckptFile, targets, mainPC, cancelled,
                   taskClosed, resultsChan, resultsClosed, prodPC, wPC, wTarget,
                   wResult, hPC, remaining, rPC, output, dequeued, pubCount,
                   atCancel, saveCalls, netCalls, unit>>

\* main.go 162-164: the select sends the next target when the queue has room.
ProducerSend ==
    /\ Running
    /\ prodPC = "feed"
    /\ prodIdx <= Len(targets)
    /\ Len(taskQueue) < cfg.QueueSize
    /\ taskQueue' = Append(taskQueue, prodIdx)
    /\ prodIdx' = prodIdx + 1
    /\ UNCHANGED <<cfg, inputTargets, ckptFile, targets, mainPC, cancelled,
                   taskClosed, resultsChan, resultsClosed, prodPC, wPC, wTarget,
                   wResult, hPC, remaining, rPC, output, dequeued, pubCount,
                   atCancel, saveCalls, netCalls, unit>>

\* Mutant of ProducerCtxDone: the producer returns on cancellation without
\* closing taskQueue.
ProducerCtxDoneNoClose ==
    /\ Running
    /\ prodPC = "feed"
    /\ prodIdx <= Len(targets)
    /\ cancelled
    /\ prodPC' = "done"
    /\ UNCHANGED <<cfg, inputTargets, ckptFile, targets, mainPC, cancelled,
                   taskQueue, taskClosed, resultsChan, resultsClosed, prodIdx,
                   wPC, wTarget, wResult, hPC, remaining, rPC, output, dequeued,
                   pubCount, atCancel, saveCalls, netCalls, unit>>

\* main.go 165-167 and 160: the select takes <-ctx.Done(); the goroutine
\* returns and the deferred close(taskQueue) runs.
ProducerCtxDone ==
    /\ Running
    /\ prodPC = "feed"
    /\ prodIdx <= Len(targets)
    /\ cancelled
    /\ prodPC' = "done"
    /\ taskClosed' = TRUE
    /\ UNCHANGED <<cfg, inputTargets, ckptFile, targets, mainPC, cancelled,
                   taskQueue, resultsChan, resultsClosed, prodIdx, wPC, wTarget,
                   wResult, hPC, remaining, rPC, output, dequeued, pubCount,
                   atCancel, saveCalls, netCalls, unit>>

\* main.go 162, 169-170 and 160: the range over targets is exhausted; the
\* deferred close(taskQueue) runs.
ProducerFinish ==
    /\ Running
    /\ prodPC = "feed"
    /\ prodIdx > Len(targets)
    /\ prodPC' = "done"
    /\ taskClosed' = TRUE
    /\ UNCHANGED <<cfg, inputTargets, ckptFile, targets, mainPC, cancelled,
                   taskQueue, resultsChan, resultsClosed, prodIdx, wPC, wTarget,
                   wResult, hPC, remaining, rPC, output, dequeued, pubCount,
                   atCancel, saveCalls, netCalls, unit>>

\* --------------------------------------------------------------- scanner
\* Mutant of ConnectScan: the error branch returns without setting Status.
ConnectScanStatusUnsetOnError(id, target) ==
    LET d == DialOutcome(target)
    IN [id |-> id, Target |-> target,
        Status |-> IF d = "ok" THEN StatusOpen ELSE "",
        Latency |-> DialLatency(target),
        Error |-> d # "ok"]

\* Mutant of ConnectScan: a dial that times out is reported CLOSED like any
\* other failure.
ConnectScanTimeoutAsClosed(id, target) ==
    LET d == DialOutcome(target)
    IN [id |-> id, Target |-> target,
        Status |-> IF d = "ok" THEN StatusOpen ELSE StatusClosed,
        Latency |-> DialLatency(target),
        Error |-> d # "ok"]

\* ConnectScanner.Scan (scanner.go 130-199): OPEN when the dial succeeds,
\* FILTERED when it fails with a timeout, CLOSED on every other failure;
\* the error is attached on failure.
ConnectScan(id, target) ==
    LET d == DialOutcome(target)
    IN [id |-> id, Target |-> target,
        Status |-> IF d = "ok" THEN StatusOpen
                   ELSE IF d = "timeout" THEN StatusFiltered
                   ELSE StatusClosed,
        Latency |-> DialLatency(target),
        Error |-> d # "ok"]

\* ------------------------------------------------------------ SYN scanner
\* SynScanner.SrcPort (syn_scanner.go 15-27): the port the SYN is sent from
\* and a reply has to be addressed to; the value of syn_scanner_test.go 92.
SrcPort == 12345

\* net.ParseIP (syn_scanner.go 38-39): nil for a string that is no IP address.
ValidIP(target) == target.IP # 0

\* The calls of SynScanner.Scan that can fail before the reply loop, in the
\* order of the code: net.Dial("udp"), SerializeLayers, ListenPacket, WriteTo,
\* SetReadDeadline.
SynStages == {"dial", "serialize", "listen", "write", "deadline"}

\* syn_scanner.go 132-135: the reply comes from the target's address, decodes
\* as TCP and is addressed to the scanner's source port.
MatchingReply(p, target, srcPort) ==
    p.From = target.IP /\ p.TCP /\ p.DstPort = srcPort

\* Mutant of SynReplyLoop: the destination port of a reply is not compared
\* with the source port.
RECURSIVE SynReplyLoopAnyPort(_, _, _, _)
SynReplyLoopAnyPort(target, srcPort, replies, readErr) ==
    IF replies = <<>>
    THEN IF readErr = "timeout"
         THEN [Status |-> StatusFiltered, Error |-> FALSE]
         ELSE [Status |-> StatusError, Error |-> TRUE]
    ELSE LET p == Head(replies)
         IN IF p.From = target.IP /\ p.TCP
            THEN [Status |-> IF p.SYN /\ p.ACK THEN StatusOpen
                             ELSE IF p.RST THEN StatusClosed
                             ELSE "",
                  Error |-> FALSE]
            ELSE SynReplyLoopAnyPort(target, srcPort, Tail(replies), readErr)

\* SynScanner.Scan 117-150: ReadFrom hands over the replies in their order of
\* arrival and then fails with readErr.  The first matching reply ends the
\* loop: SYN+ACK sets OPEN, otherwise RST sets CLOSED, and any other flags
\* leave the status at the zero value of ScanStatus, the empty string.
\* Every other packet is skipped.
RECURSIVE SynReplyLoop(_, _, _, _)
SynReplyLoop(target, srcPort, replies, readErr) ==
    IF replies = <<>>
    THEN IF readErr = "timeout"
         THEN [Status |-> StatusFiltered, Error |-> FALSE]
         ELSE [Status |-> StatusError, Error |-> TRUE]
    ELSE LET p == Head(replies)
         IN IF MatchingReply(p, target, srcPort)
            THEN [Status |-> IF p.SYN /\ p.ACK THEN StatusOpen
                             ELSE IF p.RST THEN StatusClosed
                             ELSE "",
                  Error |-> FALSE]
            ELSE SynReplyLoop(target, srcPort, Tail(replies), readErr)

\* SynScanner.Scan (syn_scanner.go 31-155): ERROR with the cause attached,
\* and no latency, when the address is invalid or a call before the reply
\* loop fails; otherwise what the reply loop decides, with the latency
\* measured after the loop.
SynScan(id, target, srcPort, env) ==
    IF ~ValidIP(target) \/ env.fail \in SynStages
    THEN [id |-> id, Target |-> target, Status |-> StatusError,
          Latency |-> 0, Error |-> TRUE]
    ELSE LET o == SynReplyLoop(target, srcPort, env.replies, env.readErr)
         IN [id |-> id, Target |-> target, Status |-> o.Status,
             Latency |-> IF o.Status = StatusFiltered THEN 2 ELSE 1,
             Error |-> o.Error]

\* Mutant of WorkerResult: the dry run is built from the scanner's result,
\* with only the status replaced.
WorkerResultDryRunFromScan(id, target, dryRun) ==
    IF dryRun
    THEN [ConnectScan(id, target) EXCEPT !.Status = StatusDryRun]
    ELSE ConnectScan(id, target)

\* Worker, scanner.go 216-229: the result a worker builds for a target; the
\* dry-run result leaves Latency and Error at their zero values.
WorkerResult(id, target, dryRun) ==
    IF dryRun
    THEN [id |-> id, Target |-> target, Status |-> StatusDryRun,
          Latency |-> 0, Error |-> FALSE]
    ELSE ConnectScan(id, target)

\* Worker, scanner.go 217 and 224-226: s.Scan is invoked only outside a dry run.
WorkerScanCalls(id, dryRun) == IF dryRun THEN {} ELSE {id}

\* Mutant of WorkerDequeue: the worker takes the first target of the queue
\* and leaves it there.
WorkerDequeuePeeks(w) ==
    /\ Running
    /\ wPC[w] = "select"
    /\ Len(taskQueue) > 0
    /\ wTarget' = [wTarget EXCEPT ![w] = Head(taskQueue)]
    /\ taskQueue' = taskQueue
    /\ wPC' = [wPC EXCEPT ![w] = "scan"]
    /\ dequeued' = dequeued \cup {Head(taskQueue)}
    /\ UNCHANGED <<cfg, inputTargets, ckptFile, targets, mainPC, cancelled,
                   taskClosed, resultsChan, resultsClosed, prodPC, prodIdx,
                   wResult, hPC, remaining, rPC, output, pubCount, atCancel,
                   saveCalls, netCalls, unit>>

\* scanner.go 209-210: the select receives a target from tasks.
WorkerDequeue(w) ==
    /\ Running
    /\ wPC[w] = "select"
    /\ Len(taskQueue) > 0
    /\ wTarget' = [wTarget EXCEPT ![w] = Head(taskQueue)]
    /\ taskQueue' = Tail(taskQueue)
    /\ wPC' = [wPC EXCEPT ![w] = "scan"]
    /\ dequeued' = dequeued \cup {Head(taskQueue)}
    /\ UNCHANGED <<cfg, inputTargets, ckptFile, targets, mainPC, cancelled,
                   taskClosed, resultsChan, resultsClosed, prodPC, prodIdx,
                   wResult, hPC, remaining, rPC, output, pubCount, atCancel, saveCalls, netCalls, unit>>

\* Mutant of WorkerTasksClosed: the worker returns as soon as the channel is
\* closed, whether or not targets are still buffered.
WorkerTasksClosedIgnoresBuffer(w) ==
    /\ Running
    /\ wPC[w] = "select"
    /\ taskClosed
    /\ wPC' = [wPC EXCEPT ![w] = "done"]
    /\ UNCHANGED <<cfg, inputTargets, ckptFile, targets, mainPC, cancelled,
                   taskQueue, taskClosed, resultsChan, resultsClosed, prodPC,
                   prodIdx, wTarget, wResult, hPC, remaining, rPC, output,
                   dequeued, pubCount, atCancel, saveCalls, netCalls, unit>>

\* scanner.go 210-214: the receive reports the closed, empty channel; return.
WorkerTasksClosed(w) ==
    /\ Running
    /\ wPC[w] = "select"
    /\ Len(taskQueue) = 0
    /\ taskClosed
    /\ wPC' = [wPC EXCEPT ![w] = "done"]
    /\ UNCHANGED <<cfg, inputTargets, ckptFile, targets, mainPC, cancelled,
                   taskQueue, taskClosed, resultsChan, resultsClosed, prodPC,
                   prodIdx, wTarget, wResult, hPC, remaining, rPC, output,
                   dequeued, pubCount, atCancel, saveCalls, netCalls, unit>>

\* scanner.go 240-242: the select takes <-ctx.Done(); return.
WorkerCtxDone(w) ==
    /\ Running
    /\ wPC[w] = "select"
    /\ cancelled
    /\ wPC' = [wPC EXCEPT ![w] = "done"]
    /\ UNCHANGED <<cfg, inputTargets, ckptFile, targets, mainPC, cancelled,
                   taskQueue, taskClosed, resultsChan, resultsClosed, prodPC,
                   prodIdx, wTarget, wResult, hPC, remaining, rPC, output,
                   dequeued, pubCount, atCancel, saveCalls, netCalls, unit>>

\* scanner.go 216-229: the probe (or the dry run) of the target held.
WorkerProbe(w) ==
    /\ Running
    /\ wPC[w] = "scan"
    /\ wResult' = [wResult EXCEPT
                     ![w] = WorkerResult(wTarget[w], targets[wTarget[w]], cfg.DryRun)]
    /\ netCalls' = [netCalls EXCEPT
                     !.scans = @ \cup WorkerScanCalls(wTarget[w], cfg.DryRun)]
    /\ wPC' = [wPC EXCEPT ![w] = "publish"]
    /\ UNCHANGED <<cfg, inputTargets, ckptFile, targets, mainPC, cancelled,
                   taskQueue, taskClosed, resultsChan, resultsClosed, prodPC,
                   prodIdx, wTarget, hPC, remaining, rPC, output, dequeued,
                   pubCount, atCancel, saveCalls, unit>>

\* scanner.go 231-232 and 237-239: the select sends the result; after the
\* delay the worker is back at the outer select.
WorkerPublish(w) ==
    /\ Running
    /\ wPC[w] = "publish"
    /\ Len(resultsChan) < cfg.QueueSize
    /\ resultsChan' = Append(resultsChan, wResult[w])
    /\ pubCount' = [pubCount EXCEPT ![wResult[w].id] = @ + 1]
    /\ wTarget' = [wTarget EXCEPT ![w] = NoTask]
    /\ wResult' = [wResult EXCEPT ![w] = NoResult]
    /\ wPC' = [wPC EXCEPT ![w] = "select"]
    /\ UNCHANGED <<cfg, inputTargets, ckptFile, targets, mainPC, cancelled,
                   taskQueue, taskClosed, resultsClosed, prodPC, prodIdx, hPC,
                   remaining, rPC, output, dequeued, atCancel, saveCalls, netCalls, unit>>

\* Mutant of WorkerDrop: the result is dropped whether or not the context
\* has been cancelled.
WorkerDropUncancelled(w) ==
    /\ Running
    /\ wPC[w] = "publish"
    /\ wTarget' = [wTarget EXCEPT ![w] = NoTask]
    /\ wResult' = [wResult EXCEPT ![w] = NoResult]
    /\ wPC' = [wPC EXCEPT ![w] = "done"]
    /\ UNCHANGED <<cfg, inputTargets, ckptFile, targets, mainPC, cancelled,
                   taskQueue, taskClosed, resultsChan, resultsClosed, prodPC,
                   prodIdx, hPC, remaining, rPC, output, dequeued, pubCount,
                   atCancel, saveCalls, netCalls, unit>>

\* scanner.go 233-235: the select takes <-ctx.Done(); the result is dropped
\* and the worker returns.
WorkerDrop(w) ==
    /\ Running
    /\ wPC[w] = "publish"
    /\ cancelled
    /\ wTarget' = [wTarget EXCEPT ![w] = NoTask]
    /\ wResult' = [wResult EXCEPT ![w] = NoResult]
    /\ wPC' = [wPC EXCEPT ![w] = "done"]
    /\ UNCHANGED <<cfg, inputTargets, ckptFile, targets, mainPC, cancelled,
                   taskQueue, taskClosed, resultsChan, resultsClosed, prodPC,
                   prodIdx, hPC, remaining, rPC, output, dequeued, pubCount,
                   atCancel, saveCalls, netCalls, unit>>

\* ----------------------------------------------------- interrupt handler
\* The ids a worker holds, mid-probe or with the result not yet published.
InFlight == {wTarget[w] : w \in {v \in Workers : wPC[v] \in {"scan", "publish"}}}

\* The ids whose probe is running.
Probing == {wTarget[w] : w \in {v \in Workers : wPC[v] = "scan"}}

\* Mutant of HandlerInterrupt: the handler also records the target a worker
\* holds as remaining.
HandlerInterruptSavesInFlight ==
    /\ Running
    /\ hPC = "wait"
    /\ cancelled' = TRUE
    /\ hPC' = "drain"
    /\ atCancel' = [set |-> TRUE, dequeued |-> dequeued, probing |-> Probing,
                    queued |-> Range(taskQueue)]
    /\ remaining' = IF InFlight = {} THEN remaining
                    ELSE Append(remaining, CHOOSE i \in InFlight : TRUE)
    /\ UNCHANGED <<cfg, inputTargets, ckptFile, targets, mainPC, taskQueue,
                   taskClosed, resultsChan, resultsClosed, prodPC, prodIdx, wPC,
                   wTarget, wResult, rPC, output, dequeued, pubCount,
                   saveCalls, netCalls, unit>>

\* Mutant of HandlerInterrupt: the handler closes taskQueue itself after
\* cancel(), as well as the producer.
HandlerInterruptClosesQueue ==
    /\ Running
    /\ hPC = "wait"
    /\ cancelled' = TRUE
    /\ taskClosed' = TRUE
    /\ hPC' = "drain"
    /\ atCancel' = [set |-> TRUE, dequeued |-> dequeued, probing |-> Probing,
                    queued |-> Range(taskQueue)]
    /\ UNCHANGED <<cfg, inputTargets, ckptFile, targets, mainPC, taskQueue,
                   resultsChan, resultsClosed, prodPC, prodIdx, wPC,
                   wTarget, wResult, remaining, rPC, output, dequeued, pubCount,
                   saveCalls, netCalls, unit>>

\* main.go 132-134: a signal arrives on sigChan; cancel().
HandlerInterrupt ==
    /\ Running
    /\ hPC = "wait"
    /\ cancelled' = TRUE
    /\ hPC' = "drain"
    /\ atCancel' = [set |-> TRUE, dequeued |-> dequeued, probing |-> Probing,
                    queued |-> Range(taskQueue)]
    /\ UNCHANGED <<cfg, inputTargets, ckptFile, targets, mainPC, taskQueue,
                   taskClosed, resultsChan, resultsClosed, prodPC, prodIdx, wPC,
                   wTarget, wResult, remaining, rPC, output, dequeued, pubCount,
                   saveCalls, netCalls, unit>>

\* Mutant of HandlerDrain: the handler saves the checkpoint after every
\* target it drains.
HandlerDrainSavesEachTarget ==
    /\ Running
    /\ hPC = "drain"
    /\ Len(taskQueue) > 0
    /\ remaining' = Append(remaining, Head(taskQueue))
    /\ taskQueue' = Tail(taskQueue)
    /\ ckptFile' = SaveState([i \in 1..Len(remaining') |-> targets[remaining'[i]]],
                             ckptFile, TRUE)
    /\ saveCalls' = Append(saveCalls, remaining')
    /\ UNCHANGED <<cfg, inputTargets, targets, mainPC, cancelled,
                   taskClosed, resultsChan, resultsClosed, prodPC, prodIdx, wPC,
                   wTarget, wResult, hPC, rPC, output, dequeued, pubCount,
                   atCancel, netCalls, unit>>

\* main.go 137-139: the range over taskQueue receives one more target.
HandlerDrain ==
    /\ Running
    /\ hPC = "drain"
    /\ Len(taskQueue) > 0
    /\ remaining' = Append(remaining, Head(taskQueue))
    /\ taskQueue' = Tail(taskQueue)
    /\ UNCHANGED <<cfg, inputTargets, ckptFile, targets, mainPC, cancelled,
                   taskClosed, resultsChan, resultsClosed, prodPC, prodIdx, wPC,
                   wTarget, wResult, hPC, rPC, output, dequeued, pubCount,
                   atCancel, saveCalls, netCalls, unit>>

\* The snapshot the handler hands to SaveState: the targets of the ids drained.
Snapshot(rem) == [i \in 1..Len(rem) |-> targets[rem[i]]]

\* main.go 137 and 140-154: the range ends on the closed, empty queue; the
\* checkpoint is saved when something remains and a resume path is configured.
HandlerFinish ==
    /\ Running
    /\ hPC = "drain"
    /\ Len(taskQueue) = 0
    /\ taskClosed
    /\ IF Len(remaining) > 0 /\ cfg.ResumeFile # ""
       THEN \E ok \in BOOLEAN :
               /\ ckptFile' = SaveState(Snapshot(remaining), ckptFile, ok)
               /\ saveCalls' = Append(saveCalls, remaining)
       ELSE UNCHANGED <<ckptFile, saveCalls>>
    /\ hPC' = "done"
    /\ UNCHANGED <<cfg, inputTargets, targets, mainPC, cancelled, taskQueue,
                   taskClosed, resultsChan, resultsClosed, prodPC, prodIdx, wPC,
                   wTarget, wResult, remaining, rPC, output, dequeued, pubCount,
                   atCancel, netCalls, unit>>

\* -------------------------------------------------------------- reporter
\* ScanResult.ToCSVRow (models.go 35-47), without the timestamp; latency_ms
\* is the latency in milliseconds (a tick of the model), which the row
\* prints with two decimals.  The text of the error is abstracted to "err".
ToCSVRow(r) ==
    [id |-> r.id, dst_ip |-> r.Target.IP, dst_port |-> r.Target.Port,
     status |-> IF r.Status = StatusError /\ r.Error THEN "ERROR: err" ELSE r.Status,
     latency_ms |-> r.Latency]

\* Reporter.Run 39-40: csv.NewWriter puts a bufio.Writer of this many bytes
\* between the reporter and the file.
WriterBufSize == 4096

\* The number of decimal digits of n >= 0, as fmt's %d prints it.
RECURSIVE Digits(_)
Digits(n) == IF n < 10 THEN 1 ELSE 1 + Digits(n \div 10)

\* The length of the address string of a host: host 0 is a string that is
\* not an IP address, the loopback host is 127.0.0.1 and host i is
\* 192.168.1.i.
AddrBytes(ip) ==
    CASE ip = 0 -> Len("invalid-ip-address")
      [] ip = Loopback -> Len("127.0.0.1")
      [] OTHER -> Len("192.168.1.") + Digits(ip)

\* models.go 41: Timestamp.Format(time.RFC3339), the zone being UTC.
TimestampBytes == Len("2006-01-02T15:04:05Z")

\* The separators csv.Writer adds to a record of five fields: four commas
\* and the newline.  No field of a record needs quoting.
SeparatorBytes == Len(",,,,") + 1

\* The bytes csv.Writer writes for the header (part_010 42) ...
HeaderBytes ==
    Len(CSVHeader[1]) + Len(CSVHeader[2]) + Len(CSVHeader[3])
    + Len(CSVHeader[4]) + Len(CSVHeader[5]) + SeparatorBytes

\* ... and for a row of ToCSVRow (part_010 55 and 61); %.2f prints the
\* milliseconds followed by a point and two decimals.
RowBytes(row) ==
    TimestampBytes + AddrBytes(row.dst_ip) + Digits(row.dst_port)
    + Len(row.status) + Digits(row.latency_ms) + Len(".00") + SeparatorBytes

\* The length in bytes of the k-th record handed to the csv.Writer.
RecordBytes(k) == IF k = 1 THEN HeaderBytes ELSE RowBytes(output[k])

\* The bytes of the first k records.
RECURSIVE OutputBytes(_)
OutputBytes(k) == IF k = 0 THEN 0 ELSE OutputBytes(k - 1) + RecordBytes(k)

\* Of b bytes written to the bufio.Writer, those that have reached the file:
\* the buffer is written out whenever a write exceeds its free room.
FlushedBytes(b) ==
    IF b = 0 THEN 0 ELSE ((b - 1) \div WriterBufSize) * WriterBufSize

\* Reporter.Run 38-40, 55 and 61: the bytes the output file holds.  Write
\* only fills the buffer; the deferred Flush runs when Run returns.
FileBytes ==
    IF rPC = "done"
    THEN OutputBytes(Len(output))
    ELSE FlushedBytes(OutputBytes(Len(output)))

\* The whole records the output file holds; the bytes after them, if any,
\* are the beginning of the next record.
FileRecords ==
    SubSeq(output, 1,
           CHOOSE k \in 0..Len(output) :
              /\ OutputBytes(k) <= FileBytes
              /\ k < Len(output) => OutputBytes(k + 1) > FileBytes)

\* Mutant of ReporterStart: the reporter enters its loop without writing
\* the header.
ReporterStartNoHeader ==
    /\ rPC = "create"
    /\ output' = <<>>
    /\ rPC' = "loop"
    /\ UNCHANGED <<cfg, inputTargets, ckptFile, targets, mainPC, cancelled,
                   taskQueue, taskClosed, resultsChan, resultsClosed, prodPC,
                   prodIdx, wPC, wTarget, wResult, hPC, remaining, dequeued,
                   pubCount, atCancel, saveCalls, netCalls, unit>>

\* Reporter.Run 30-37: os.Create fails for an output path that cannot be
\* created; the reporter logs the error and calls os.Exit(1), which ends the
\* process (see Running): main and every goroutine stop where they are,
\* nothing is written.  The reporter tests create their file in a fresh temporary
\* directory.
ReporterCreateFails ==
    /\ rPC = "create"
    /\ unit = NoUnit
    /\ rPC' = "exit1"
    /\ UNCHANGED <<cfg, inputTargets, ckptFile, targets, mainPC, cancelled,
                   taskQueue, taskClosed, resultsChan, resultsClosed, prodPC,
                   prodIdx, wPC, wTarget, wResult, hPC, remaining, output,
                   dequeued, pubCount, atCancel, saveCalls, netCalls, unit>>

\* Reporter.Run 30 and 38-46: the output file is created and the header
\* written.
ReporterStart ==
    /\ rPC = "create"
    /\ output' = <<CSVHeader>>
    /\ rPC' = "loop"
    /\ UNCHANGED <<cfg, inputTargets, ckptFile, targets, mainPC, cancelled,
                   taskQueue, taskClosed, resultsChan, resultsClosed, prodPC,
                   prodIdx, wPC, wTarget, wResult, hPC, remaining, dequeued,
                   pubCount, atCancel, saveCalls, netCalls, unit>>

\* Reporter.Run 50 and 55-57: the select receives a result and writes its row.
ReporterReceive ==
    /\ rPC = "loop"
    /\ Len(resultsChan) > 0
    /\ output' = Append(output, ToCSVRow(Head(resultsChan)))
    /\ resultsChan' = Tail(resultsChan)
    /\ UNCHANGED <<cfg, inputTargets, ckptFile, targets, mainPC, cancelled,
                   taskQueue, taskClosed, resultsClosed, prodPC, prodIdx, wPC,
                   wTarget, wResult, hPC, remaining, rPC, dequeued, pubCount,
                   atCancel, saveCalls, netCalls, unit>>

\* Reporter.Run 50-54: the receive reports the closed, empty channel; return.
ReporterClosed ==
    /\ rPC = "loop"
    /\ Len(resultsChan) = 0
    /\ resultsClosed
    /\ rPC' = "done"
    /\ UNCHANGED <<cfg, inputTargets, ckptFile, targets, mainPC, cancelled,
                   taskQueue, taskClosed, resultsChan, resultsClosed, prodPC,
                   prodIdx, wPC, wTarget, wResult, hPC, remaining, output,
                   dequeued, pubCount, atCancel, saveCalls, netCalls, unit>>

\* Mutant of ReporterCtxDone: on cancellation the reporter returns at once,
\* without draining the results channel.
ReporterCtxDoneNoDrain ==
    /\ rPC = "loop"
    /\ cancelled
    /\ rPC' = "done"
    /\ UNCHANGED <<cfg, inputTargets, ckptFile, targets, mainPC, cancelled,
                   taskQueue, taskClosed, resultsChan, resultsClosed, prodPC,
                   prodIdx, wPC, wTarget, wResult, hPC, remaining, output,
                   dequeued, pubCount, atCancel, saveCalls, netCalls, unit>>

\* Reporter.Run 58-59: the select takes <-r.ctx.Done(); the drain loop starts.
ReporterCtxDone ==
    /\ rPC = "loop"
    /\ cancelled
    /\ rPC' = "drain"
    /\ UNCHANGED <<cfg, inputTargets, ckptFile, targets, mainPC, cancelled,
                   taskQueue, taskClosed, resultsChan, resultsClosed, prodPC,
                   prodIdx, wPC, wTarget, wResult, hPC, remaining, output,
                   dequeued, pubCount, atCancel, saveCalls, netCalls, unit>>

\* Mutant of ReporterDrain: the drain loop writes each record in front of
\* the result record written last.
ReporterDrainOutOfOrder ==
    /\ rPC = "drain"
    /\ Len(resultsChan) > 0
    /\ output' = IF Len(output) < 2
                 THEN Append(output, ToCSVRow(Head(resultsChan)))
                 ELSE Append(SubSeq(output, 1, Len(output) - 1),
                             ToCSVRow(Head(resultsChan)))
                      \o SubSeq(output, Len(output), Len(output))
    /\ resultsChan' = Tail(resultsChan)
    /\ UNCHANGED <<cfg, inputTargets, ckptFile, targets, mainPC, cancelled,
                   taskQueue, taskClosed, resultsClosed, prodPC, prodIdx, wPC,
                   wTarget, wResult, hPC, remaining, rPC, dequeued, pubCount,
                   atCancel, saveCalls, netCalls, unit>>

\* Reporter.Run 60-62: the range over resultsChan receives and writes a row.
ReporterDrain ==
    /\ rPC = "drain"
    /\ Len(resultsChan) > 0
    /\ output' = Append(output, ToCSVRow(Head(resultsChan)))
    /\ resultsChan' = Tail(resultsChan)
    /\ UNCHANGED <<cfg, inputTargets, ckptFile, targets, mainPC, cancelled,
                   taskQueue, taskClosed, resultsClosed, prodPC, prodIdx, wPC,
                   wTarget, wResult, hPC, remaining, rPC, dequeued, pubCount,
                   atCancel, saveCalls, netCalls, unit>>

\* Reporter.Run 60 and 63: the range ends on the closed, empty channel; return.
ReporterDrainEnd ==
    /\ rPC = "drain"
    /\ Len(resultsChan) = 0
    /\ resultsClosed
    /\ rPC' = "done"
    /\ UNCHANGED <<cfg, inputTargets, ckptFile, targets, mainPC, cancelled,
                   taskQueue, taskClosed, resultsChan, resultsClosed, prodPC,
                   prodIdx, wPC, wTarget, wResult, hPC, remaining, output,
                   dequeued, pubCount, atCancel, saveCalls, netCalls, unit>>

\* --------------------------------------------------------- specification
Next ==
    \/ MainStart
    \/ MainWaitWorkers
    \/ MainCloseResults
    \/ MainReturn
    \/ ProducerSend
    \/ ProducerCtxDone
    \/ ProducerFinish
    \/ \E w \in Workers : WorkerDequeue(w)
    \/ \E w \in Workers : WorkerTasksClosed(w)
    \/ \E w \in Workers : WorkerCtxDone(w)
    \/ \E w \in Workers : WorkerProbe(w)
    \/ \E w \in Workers : WorkerPublish(w)
    \/ \E w \in Workers : WorkerDrop(w)
    \/ HandlerInterrupt
    \/ HandlerDrain
    \/ HandlerFinish
    \/ ReporterCreateFails
    \/ ReporterStart
    \/ ReporterReceive
    \/ ReporterClosed
    \/ ReporterCtxDone
    \/ ReporterDrain
    \/ ReporterDrainEnd

Spec == Init /\ [][Next]_vars

\* Every step of the program itself: all of Next but the arrival of a signal.
ProgramStep ==
    \/ MainStart \/ MainWaitWorkers \/ MainCloseResults \/ MainReturn
    \/ ProducerSend \/ ProducerCtxDone \/ ProducerFinish
    \/ \E w \in Workers :
          \/ WorkerDequeue(w) \/ WorkerTasksClosed(w) \/ WorkerCtxDone(w)
          \/ WorkerProbe(w) \/ WorkerPublish(w) \/ WorkerDrop(w)
    \/ HandlerDrain \/ HandlerFinish
    \/ ReporterCreateFails
    \/ ReporterStart \/ ReporterReceive \/ ReporterClosed \/ ReporterCtxDone
    \/ ReporterDrain \/ ReporterDrainEnd

\* The Go scheduler runs every goroutine that can take a step, and a select
\* with a ready case is eventually served; a probe returns within its
\* timeout.  The arrival of a signal is up to the environment.
Fairness ==
    /\ WF_vars(MainStart) /\ WF_vars(MainWaitWorkers)
    /\ WF_vars(MainCloseResults) /\ WF_vars(MainReturn)
    /\ WF_vars(ProducerSend) /\ WF_vars(ProducerCtxDone) /\ WF_vars(ProducerFinish)
    /\ \A w \in Workers :
          /\ WF_vars(WorkerDequeue(w)) /\ WF_vars(WorkerTasksClosed(w))
          /\ WF_vars(WorkerCtxDone(w)) /\ WF_vars(WorkerProbe(w))
          /\ WF_vars(WorkerPublish(w)) /\ WF_vars(WorkerDrop(w))
    /\ WF_vars(HandlerDrain) /\ WF_vars(HandlerFinish)
    /\ WF_vars(ReporterStart) /\ WF_vars(ReporterReceive) /\ WF_vars(ReporterClosed)
    /\ WF_vars(ReporterCtxDone) /\ WF_vars(ReporterDrain) /\ WF_vars(ReporterDrainEnd)

FairSpec == Init /\ [][Next]_vars /\ Fairness

\* ---------------------------------------------------------- config.Load
\* A command-line flag: given with a value, or absent.
Given(v) == [set |-> TRUE, val |-> v]
Absent(v) == [set |-> FALSE, val |-> v]

\* flag.Parse (config.go 30-51): the value given, or the flag's default.
Flag(f, default) == IF f.set THEN f.val ELSE default

\* time.Millisecond, in the nanoseconds of time.Duration (config.go 73-74).
Millisecond == 1000000

\* config.go 66: the queue capacity per worker when --queue is 0.
QueuePerWorker == 1024

\* config.go 82.
MinSourcePort == 10000

\* The nil *Config returned with an error.
NoConfig == [nil |-> TRUE]

\* Mutant of Load: a worker count of zero is accepted.
LoadAcceptsZeroWorkers(args) ==
    LET ipInput == Flag(args.ip, "")
        portInput == Flag(args.port, "")
        workers == Flag(args.worker, 1)
        scanType == Flag(args.scantype, "connect")
        queue == Flag(args.queue, 0)
    IN IF ipInput = "" \/ portInput = ""
       THEN [err |-> "missing required arguments: --ip and --port", cfg |-> NoConfig]
       ELSE IF workers < 0
       THEN [err |-> "--worker must be a positive integer", cfg |-> NoConfig]
       ELSE IF scanType # "connect" /\ scanType # "syn"
       THEN [err |-> "--scantype must be either 'connect' or 'syn'", cfg |-> NoConfig]
       ELSE [err |-> "",
             cfg |-> [IPInput |-> ipInput, PortInput |-> portInput,
                      Workers |-> workers,
                      Timeout |-> Flag(args.timeout, 100) * Millisecond,
                      Delay |-> Flag(args.delay, 100) * Millisecond,
                      QueueSize |-> IF queue = 0 THEN workers * QueuePerWorker
                                    ELSE queue,
                      DryRun |-> Flag(args.dryrun, FALSE),
                      ResumeFile |-> Flag(args.resume, ""),
                      OutputFile |-> Flag(args.output, "results.csv"),
                      ScanType |-> scanType,
                      Ping |-> Flag(args.ping, TRUE),
                      LogFile |-> "portRunner.log",
                      MinSourcePort |-> MinSourcePort,
                      LogLevel |-> Flag(args.loglevel, "INFO")]]

\* config.Load (config.go 29-87): the three checks in their order, then the
\* queue size and the Config.  err is "" for a nil error.
Load(args) ==
    LET ipInput == Flag(args.ip, "")
        portInput == Flag(args.port, "")
        workers == Flag(args.worker, 1)
        scanType == Flag(args.scantype, "connect")
        queue == Flag(args.queue, 0)
    IN IF ipInput = "" \/ portInput = ""
       THEN [err |-> "missing required arguments: --ip and --port", cfg |-> NoConfig]
       ELSE IF workers <= 0
       THEN [err |-> "--worker must be a positive integer", cfg |-> NoConfig]
       ELSE IF scanType # "connect" /\ scanType # "syn"
       THEN [err |-> "--scantype must be either 'connect' or 'syn'", cfg |-> NoConfig]
       ELSE [err |-> "",
             cfg |-> [IPInput |-> ipInput, PortInput |-> portInput,
                      Workers |-> workers,
                      Timeout |-> Flag(args.timeout, 100) * Millisecond,
                      Delay |-> Flag(args.delay, 100) * Millisecond,
                      QueueSize |-> IF queue = 0 THEN workers * QueuePerWorker
                                    ELSE queue,
                      DryRun |-> Flag(args.dryrun, FALSE),
                      ResumeFile |-> Flag(args.resume, ""),
                      OutputFile |-> Flag(args.output, "results.csv"),
                      ScanType |-> scanType,
                      Ping |-> Flag(args.ping, TRUE),
                      LogFile |-> "portRunner.log",
                      MinSourcePort |-> MinSourcePort,
                      LogLevel |-> Flag(args.loglevel, "INFO")]]

\* main.go 112-122: the scan engine of worker i.  Both cases of the switch
\* fall through to the default, which makes a ConnectScanner; a connect
\* scanner has no source port of its own.
ScanEngine(c, i) == [strategy |-> "connect", srcPort |-> 0]

\* ------------------------------------------------------ checkpoint path
\* A file path: rooted or not, and its elements.  The empty path is the
\* empty string.
Path(abs, parts) == [abs |-> abs, parts |-> parts]
EmptyPath == Path(FALSE, <<>>)

\* filepath.Join (main.go 144): empty elements are dropped and the others
\* joined with a separator, so the result is rooted when its first
\* non-empty element is, and a rooted second element is put under the first.
Join(a, b) ==
    IF a = EmptyPath THEN b
    ELSE Path(a.abs, a.parts \o b.parts)

\* The file the operating system opens for a path: a path that is not
\* rooted is taken from the working directory.
Resolve(cwd, p) == IF p.abs THEN p ELSE Path(TRUE, cwd.parts \o p.parts)

\* main.go 140-145: the path handed to checkpoint.SaveState; os.Getwd's
\* error is logged and the empty directory it returned is used.
SavePath(cwd, getwdFails, resumeFile) ==
    Join(IF getwdFails THEN EmptyPath ELSE cwd, resumeFile)

\* main.go 53: the path handed to checkpoint.LoadState.
LoadPath(resumeFile) == resumeFile

\* ------------------------------------------------------- component runs
\* Runs that drive one component on its own, as the package tests do: the
\* scanners' Scan on one target, Reporter.Run under the two tests of
\* reporter_test.go, and checkpoint.Handle.  unit holds the inputs and the
\* state of the driver; main and its goroutines do not run.

\* The longest sequence of replies ReadFrom hands to one SYN scan.
MaxReplies == 2

\* Hosts probed on their own: the malformed address and a host of every
\* answer of the network.
Hosts == 0..(MaxTargets + 1)

\* The packets a raw socket reads during a scan of target: TCP segments from
\* the target to the scanner's source port with every combination of SYN,
\* ACK and RST; SYN+ACK and RST segments from the target to another port and
\* from another host; and a packet from the target that does not decode as TCP.
Packets(target) ==
    LET all == [From : {target.IP, target.IP + 1}, TCP : BOOLEAN,
                DstPort : {SrcPort, SrcPort + 1},
                SYN : BOOLEAN, ACK : BOOLEAN, RST : BOOLEAN]
    IN {p \in all :
          \/ MatchingReply(p, target, SrcPort)
          \/ p.TCP /\ ((p.SYN /\ p.ACK /\ ~p.RST) \/ (~p.SYN /\ ~p.ACK /\ p.RST))
          \/ ~p.TCP /\ p.From = target.IP /\ p.DstPort = SrcPort
                    /\ ~p.SYN /\ ~p.ACK /\ ~p.RST}

RECURSIVE SeqsUpTo(_, _)
SeqsUpTo(S, n) ==
    IF n = 0 THEN {<<>>}
    ELSE LET shorter == SeqsUpTo(S, n - 1)
         IN shorter \cup {Append(q, x) : q \in shorter, x \in S}

\* What the network and the operating system answer to one SYN scan: the call
\* that fails before the reply loop (or none), the replies read, and the
\* error that ends the reading.
SynEnvs(target) ==
    [fail : SynStages, replies : {<<>>}, readErr : {"timeout"}]
    \cup [fail : {"none"}, replies : SeqsUpTo(Packets(target), MaxReplies),
          readErr : {"timeout", "other"}]

NoEnv == [fail |-> "none", replies |-> <<>>, readErr |-> "timeout"]

ScanUnits ==
    {[kind |-> "scan", strategy |-> "connect", target |-> Tgt(h), env |-> NoEnv,
      pc |-> "call", result |-> NoResult] : h \in Hosts}
    \cup {[kind |-> "scan", strategy |-> "syn", target |-> Tgt(0), env |-> NoEnv,
           pc |-> "call", result |-> NoResult]}
    \cup {[kind |-> "scan", strategy |-> "syn", target |-> Tgt(1), env |-> e,
           pc |-> "call", result |-> NoResult] : e \in SynEnvs(Tgt(1))}

\* reporter_test.go 43-47: resultsToSend of TestReporter_Run, latencies in
\* milliseconds; the third result carries os.ErrDeadlineExceeded.
ResultsToSend ==
    <<[Target |-> ScanTarget(1, 80), Status |-> StatusOpen,
       Latency |-> 10, Error |-> FALSE],
      [Target |-> ScanTarget(1, 443), Status |-> StatusClosed,
       Latency |-> 5, Error |-> FALSE],
      [Target |-> ScanTarget(2, 22), Status |-> StatusFiltered,
       Latency |-> 100, Error |-> TRUE]>>

\* reporter_test.go 111 and 119: the results of
\* TestReporter_Run_ContextCancel, 127.0.0.1 port 80 and then port 443, OPEN
\* with latency and error left zero.
CancelResults ==
    <<[Target |-> ScanTarget(Loopback, 80), Status |-> StatusOpen,
       Latency |-> 0, Error |-> FALSE],
      [Target |-> ScanTarget(Loopback, 443), Status |-> StatusOpen,
       Latency |-> 0, Error |-> FALSE]>>

\* reporter_test.go 31 and 102: TestReporter_Run sends its results through a
\* channel that holds them all and closes it; TestReporter_Run_ContextCancel
\* sends one result through a channel of capacity 1, cancels the context and
\* leaves the channel open.  The driver "Shutdown" does what main does on an
\* interrupt (main.go 133 and 172-175): the context is cancelled first and
\* the channel closed afterwards.
ReporterUnits ==
    {[kind |-> "reporter", test |-> "Run", cap |-> Len(ResultsToSend),
      toSend |-> Len(ResultsToSend), sent |-> 0, pc |-> "send"],
     [kind |-> "reporter", test |-> "ContextCancel", cap |-> 1,
      toSend |-> 1, sent |-> 0, pc |-> "send"],
     [kind |-> "reporter", test |-> "Shutdown", cap |-> MaxTargets,
      toSend |-> MaxTargets, sent |-> 0, pc |-> "send"]}

\* A file of checkpoint.Handle: absent, holding a whole snapshot, or holding
\* the beginning of one.
NoFile == [state |-> "missing", remaining |-> <<>>]

HandleUnits ==
    {[kind |-> "handle", pc |-> "wait", ctxDone |-> FALSE, taskCh |-> q,
      closed |-> FALSE, rem |-> <<>>, tmp |-> NoFile, final |-> NoFile,
      loaded |-> [err |-> FALSE, targets |-> <<>>]] :
        q \in {<<>>} \cup {DistinctList(n) : n \in 1..MaxQueue}}

\* The flags besides --ip, --port, --worker, --queue and --scantype: all
\* absent, or all given with the values of config_test.go 88-101.
OtherFlags ==
    {[timeout |-> Absent(0), delay |-> Absent(0), dryrun |-> Absent(FALSE),
      resume |-> Absent(""), output |-> Absent(""), ping |-> Absent(FALSE),
      loglevel |-> Absent("")],
     [timeout |-> Given(500), delay |-> Given(50), dryrun |-> Given(TRUE),
      resume |-> Given("backup.json"), output |-> Given("scan_out.csv"),
      ping |-> Given(FALSE), loglevel |-> Given("DEBUG")]}

\* The command lines given to config.Load.
LoadArgs ==
    {[ip |-> i, port |-> p, worker |-> w, queue |-> q, scantype |-> t,
      timeout |-> o.timeout, delay |-> o.delay, dryrun |-> o.dryrun,
      resume |-> o.resume, output |-> o.output, ping |-> o.ping,
      loglevel |-> o.loglevel] :
        i \in {Absent(""), Given("127.0.0.1")},
        p \in {Absent(""), Given("80")},
        w \in {Absent(0)} \cup {Given(n) : n \in -1..NumWorkers},
        q \in {Absent(0)} \cup {Given(n) : n \in -1..MaxQueue},
        t \in {Absent(""), Given("connect"), Given("syn"), Given("invalid")},
        o \in OtherFlags}

\* What main's start-up reads besides the command line: the operating
\* system and the effective user id, whether the host of --ip answers the
\* ping, and the file --resume names.
LoadEnvs ==
    [goos : {"linux", "windows"}, euid : {0, 1000}, reachable : BOOLEAN,
     ckpt : {[state |-> "missing", remaining |-> <<>>],
             [state |-> "valid", remaining |-> DistinctList(1)]}]

\* main.go 26-126: the start-up of main from config.Load to the scan
\* engines.
LoadUnits ==
    {[kind |-> "load", args |-> a, env |-> e, pc |-> "call",
      loaded |-> [err |-> "", cfg |-> NoConfig], targets |-> <<>>,
      engines |-> <<>>] :
        a \in LoadArgs, e \in LoadEnvs}

\* The values of --resume: a file name, a path below the working directory
\* and a rooted path; the working directory of both runs.
ResumeFiles ==
    {Path(FALSE, <<"checkpoint.json">>), Path(FALSE, <<"out", "checkpoint.json">>),
     Path(TRUE, <<"tmp", "checkpoint.json">>)}
WorkingDir == Path(TRUE, <<"work">>)

\* An interrupted run and a later run given the same --resume.
PathUnits ==
    {[kind |-> "path", resume |-> f, cwd |-> WorkingDir, getwdFails |-> g,
      pc |-> "run", saved |-> EmptyPath, loaded |-> EmptyPath] :
        f \in ResumeFiles, g \in BOOLEAN}

\* The hosts given to the prefilter, and the number of times host h occurs
\* in a list.
PingHosts == 1..MaxTargets
Count(list, h) == Cardinality({k \in 1..Len(list) : list[k] = h})

\* pinger.FilterReachableHosts 18-49, for every host list (with repeated
\* hosts) and every worker count from 1: hostJobChan holds the hosts and is
\* closed, the workers are running, reachableHosts is empty.  pinged counts
\* the calls of pingHostFunc per host by their answer.
PingerUnits ==
    {[kind |-> "pinger", hosts |-> l, workers |-> n, hostJobChan |-> l,
      wpc |-> [w \in 1..n |-> "range"], host |-> [w \in 1..n |-> 0],
      reachableHosts |-> <<>>,
      pinged |-> [h \in PingHosts |-> [ok |-> 0, failed |-> 0]],
      pc |-> "wait", returned |-> <<>>] :
        l \in SeqsUpTo(PingHosts, MaxTargets), n \in 1..NumWorkers}

\* The variables of main's run while one component is driven on its own.
UnitInit ==
    /\ unit \in ScanUnits \cup ReporterUnits \cup HandleUnits \cup LoadUnits
                \cup PathUnits \cup PingerUnits
    /\ cfg = [QueueSize |-> 1, ResumeFile |-> "", DryRun |-> FALSE,
              Ping |-> TRUE, Workers |-> NumWorkers, LoadErr |-> FALSE]
    /\ inputTargets = [err |-> FALSE, targets |-> <<>>]
    /\ ckptFile = [state |-> "missing", remaining |-> <<>>]
    /\ targets = <<>>
    /\ mainPC = "none"
    /\ cancelled = FALSE
    /\ taskQueue = <<>>
    /\ taskClosed = FALSE
    /\ resultsChan = <<>>
    /\ resultsClosed = FALSE
    /\ prodPC = "idle"
    /\ prodIdx = 1
    /\ wPC = [w \in Workers |-> "idle"]
    /\ wTarget = [w \in Workers |-> NoTask]
    /\ wResult = [w \in Workers |-> NoResult]
    /\ hPC = "idle"
    /\ remaining = <<>>
    \* reporter_test.go 38-39 and 109-110: the test starts Run
    /\ rPC = IF unit.kind = "reporter" THEN "create" ELSE "idle"
    /\ output = <<>>
    /\ dequeued = {}
    /\ pubCount = [i \in 1..MaxTargets |-> 0]
    /\ atCancel = [set |-> FALSE, dequeued |-> {}, probing |-> {}, queued |-> {}]
    /\ saveCalls = <<>>
    /\ netCalls = [ping |-> FALSE, scans |-> {}]

\* The variables of main's run that no component run changes.
UnitFrame ==
    UNCHANGED <<cfg, inputTargets, ckptFile, targets, mainPC, taskQueue,
                taskClosed, prodPC, prodIdx, wPC, wTarget, wResult, hPC,
                remaining, dequeued, pubCount, atCancel, saveCalls, netCalls>>

\* One call of ConnectScanner.Scan.
UnitConnectScan ==
    /\ unit.kind = "scan" /\ unit.strategy = "connect" /\ unit.pc = "call"
    /\ unit' = [unit EXCEPT !.result = ConnectScan(1, unit.target),
                            !.pc = "returned"]
    /\ UnitFrame
    /\ UNCHANGED <<cancelled, resultsChan, resultsClosed, rPC, output>>

\* One call of SynScanner.Scan.
UnitSynScan ==
    /\ unit.kind = "scan" /\ unit.strategy = "syn" /\ unit.pc = "call"
    /\ unit' = [unit EXCEPT !.result = SynScan(1, unit.target, SrcPort, unit.env),
                            !.pc = "returned"]
    /\ UnitFrame
    /\ UNCHANGED <<cancelled, resultsChan, resultsClosed, rPC, output>>

\* The i-th result a reporter run is sent; the driver "Shutdown" sends the
\* results of TestReporter_Run over again.
TestResult(i) ==
    LET r == IF unit.test = "ContextCancel"
             THEN CancelResults[i]
             ELSE ResultsToSend[((i - 1) % Len(ResultsToSend)) + 1]
    IN [id |-> i, Target |-> r.Target, Status |-> r.Status,
        Latency |-> r.Latency, Error |-> r.Error]

\* reporter_test.go 49-51 and 112: the test sends a result, blocking while
\* the channel is full.
TestSend ==
    /\ unit.kind = "reporter" /\ unit.pc = "send"
    /\ Len(resultsChan) < unit.cap
    /\ resultsChan' = Append(resultsChan, TestResult(unit.sent + 1))
    /\ unit' = [unit EXCEPT
                  !.sent = @ + 1,
                  !.pc = IF unit.sent + 1 < unit.toSend THEN "send"
                         ELSE IF unit.test = "Run" THEN "close" ELSE "cancel"]
    /\ UnitFrame
    /\ UNCHANGED <<cancelled, resultsClosed, rPC, output>>

\* reporter_test.go 55 and main.go 175: close(resultsChan).
TestClose ==
    /\ unit.kind = "reporter" /\ unit.pc = "close"
    /\ resultsClosed' = TRUE
    /\ unit' = [unit EXCEPT !.pc = "wait"]
    /\ UnitFrame
    /\ UNCHANGED <<cancelled, resultsChan, rPC, output>>

\* reporter_test.go 115 and main.go 133: cancel().
TestCancel ==
    /\ unit.kind = "reporter" /\ unit.pc = "cancel"
    /\ cancelled' = TRUE
    /\ unit' = [unit EXCEPT
                  !.pc = IF unit.test = "ContextCancel" THEN "trysend" ELSE "close"]
    /\ UnitFrame
    /\ UNCHANGED <<resultsChan, resultsClosed, rPC, output>>

\* reporter_test.go 119-122: a send that is skipped when the channel is full.
TestTrySend ==
    /\ unit.kind = "reporter" /\ unit.pc = "trysend"
    /\ IF Len(resultsChan) < unit.cap
       THEN /\ resultsChan' = Append(resultsChan, TestResult(unit.sent + 1))
            /\ unit' = [unit EXCEPT !.sent = @ + 1, !.pc = "wait"]
       ELSE /\ resultsChan' = resultsChan
            /\ unit' = [unit EXCEPT !.pc = "wait"]
    /\ UnitFrame
    /\ UNCHANGED <<cancelled, resultsClosed, rPC, output>>

\* reporter_test.go 56 and 124: wg.Wait() returns once Run has returned; the
\* test goes on to read the output file.
TestWait ==
    /\ unit.kind = "reporter" /\ unit.pc = "wait"
    /\ rPC = "done"
    /\ unit' = [unit EXCEPT !.pc = "verify"]
    /\ UnitFrame
    /\ UNCHANGED <<cancelled, resultsChan, resultsClosed, rPC, output>>

\* The steps of a reporter test and of the Run it started.
ReporterTestStep ==
    \/ TestSend \/ TestClose \/ TestCancel \/ TestTrySend \/ TestWait
    \/ ReporterStart \/ ReporterReceive \/ ReporterClosed \/ ReporterCtxDone
    \/ ReporterDrain \/ ReporterDrainEnd

\* The signal arrives: the context handed to checkpoint.Handle is cancelled.
HandleCancel ==
    /\ unit.kind = "handle" /\ ~unit.ctxDone
    /\ unit' = [unit EXCEPT !.ctxDone = TRUE]
    /\ UnitFrame
    /\ UNCHANGED <<cancelled, resultsChan, resultsClosed, rPC, output>>

\* The producer of taskCh closes it when it has sent its last target
\* (part_001 62-68); taskCh holds what the workers have not taken.
HandleTasksClosed ==
    /\ unit.kind = "handle" /\ ~unit.closed
    /\ unit' = [unit EXCEPT !.closed = TRUE]
    /\ UnitFrame
    /\ UNCHANGED <<cancelled, resultsChan, resultsClosed, rPC, output>>

\* checkpoint.Handle (part_003 37-39): <-ctx.Done() returns.
HandleCtxDone ==
    /\ unit.kind = "handle" /\ unit.pc = "wait" /\ unit.ctxDone
    /\ unit' = [unit EXCEPT !.pc = "range"]
    /\ UnitFrame
    /\ UNCHANGED <<cancelled, resultsChan, resultsClosed, rPC, output>>

\* checkpoint.Handle (part_003 40-42): the range over taskCh receives a target.
HandleReceive ==
    /\ unit.kind = "handle" /\ unit.pc = "range" /\ unit.taskCh # <<>>
    /\ unit' = [unit EXCEPT
                  !.rem = Append(@, <<Head(unit.taskCh).IP, Head(unit.taskCh).Port>>),
                  !.taskCh = Tail(@)]
    /\ UnitFrame
    /\ UNCHANGED <<cancelled, resultsChan, resultsClosed, rPC, output>>

\* checkpoint.Handle (part_003 40-43): the range ends on the closed, empty
\* channel.
HandleRangeEnd ==
    /\ unit.kind = "handle" /\ unit.pc = "range"
    /\ unit.taskCh = <<>> /\ unit.closed
    /\ unit' = [unit EXCEPT !.pc = "write"]
    /\ UnitFrame
    /\ UNCHANGED <<cancelled, resultsChan, resultsClosed, rPC, output>>

\* os.WriteFile on the temporary path: the whole snapshot is written, or the
\* write fails after a part of it, or the file cannot be created.
WriteFile(rem, outcome) ==
    CASE outcome = "ok" -> [state |-> "valid", remaining |-> rem]
      [] outcome = "short" -> [state |-> "partial", remaining |-> <<>>]
      [] OTHER -> NoFile

\* checkpoint.Handle (part_003 46): os.WriteFile(tmp, ...); its error is not
\* looked at.
HandleWriteFile ==
    /\ unit.kind = "handle" /\ unit.pc = "write"
    /\ \E outcome \in {"ok", "short", "fail"} :
          unit' = [unit EXCEPT !.tmp = WriteFile(unit.rem, outcome),
                               !.pc = "rename"]
    /\ UnitFrame
    /\ UNCHANGED <<cancelled, resultsChan, resultsClosed, rPC, output>>

\* checkpoint.Handle (part_003 47-49): os.Rename(tmp, final) whatever the
\* write returned, then os.Exit(0).  The rename fails, unnoticed, when there
\* is no temporary file.
HandleRename ==
    /\ unit.kind = "handle" /\ unit.pc = "rename"
    /\ unit' = IF unit.tmp.state # "missing"
               THEN [unit EXCEPT !.final = unit.tmp, !.tmp = NoFile, !.pc = "exit"]
               ELSE [unit EXCEPT !.pc = "exit"]
    /\ UnitFrame
    /\ UNCHANGED <<cancelled, resultsChan, resultsClosed, rPC, output>>

\* loadCheckpoint (internal/config/config.go 165-166): a placeholder that
\* returns no targets and no error, whatever the file holds.
loadCheckpoint(file) == [err |-> FALSE, targets |-> <<>>]

\* input.ParseTargets (internal/config/config.go 42-45) of a later run
\* whose --resume names the file checkpoint.Handle left: the targets are
\* those loadCheckpoint returns.
UnitParseTargets ==
    /\ unit.kind = "handle" /\ unit.pc = "exit"
    /\ unit' = [unit EXCEPT !.loaded = loadCheckpoint(unit.final),
                            !.pc = "resumed"]
    /\ UnitFrame
    /\ UNCHANGED <<cancelled, resultsChan, resultsClosed, rPC, output>>

\* main.go 26-30: config.Load; an error is printed and the process exits
\* with status 1.
UnitLoad ==
    /\ unit.kind = "load" /\ unit.pc = "call"
    /\ LET r == Load(unit.args)
       IN unit' = [unit EXCEPT !.loaded = r,
                               !.pc = IF r.err # "" THEN "exit1" ELSE "loaded"]
    /\ UnitFrame
    /\ UNCHANGED <<cancelled, resultsChan, resultsClosed, rPC, output>>

\* utils.CheckPrivileges (utils.go 13-20): the process exits with status 1
\* when it runs neither on windows nor as root.
CheckPrivileges(goos, euid) ==
    IF goos # "windows" /\ euid # 0 THEN "exit1" ELSE "passed"

\* main.go 43-46: the privilege check, made for the SYN scan only.
UnitCheckPrivileges ==
    /\ unit.kind = "load" /\ unit.pc = "loaded"
    /\ unit' = [unit EXCEPT
                  !.pc = IF unit.loaded.cfg.ScanType = "syn"
                            /\ CheckPrivileges(unit.env.goos, unit.env.euid) = "exit1"
                         THEN "exit1" ELSE "checked"]
    /\ UnitFrame
    /\ UNCHANGED <<cancelled, resultsChan, resultsClosed, rPC, output>>

\* main.go 64-91: what parsing --ip 127.0.0.1 and --port 80 and the
\* prefilter leave, the one target or none when the ping ran and the host
\* did not answer.
UnitInput(c, reachable) ==
    [err |-> FALSE,
     targets |-> IF PrefilterRuns(c) /\ ~reachable
                 THEN <<>> ELSE <<ScanTarget(Loopback, 80)>>]

\* main.go 48-97: the target list is resolved; without a target the process
\* exits with status 1.
UnitResolveTargets ==
    /\ unit.kind = "load" /\ unit.pc = "checked"
    /\ LET c == unit.loaded.cfg
           r == ResolveTargets(c, unit.env.ckpt, UnitInput(c, unit.env.reachable))
       IN unit' = [unit EXCEPT
                     !.targets = r.targets,
                     !.pc = IF r.exit \/ Len(r.targets) = 0
                            THEN "exit1" ELSE "targets"]
    /\ UnitFrame
    /\ UNCHANGED <<cancelled, resultsChan, resultsClosed, rPC, output>>

\* main.go 104-105: make(chan ..., cfg.QueueSize) for both queues; make
\* panics on a negative capacity.
UnitMakeQueues ==
    /\ unit.kind = "load" /\ unit.pc = "targets"
    /\ unit' = [unit EXCEPT
                  !.pc = IF unit.loaded.cfg.QueueSize < 0 THEN "panic" ELSE "queues"]
    /\ UnitFrame
    /\ UNCHANGED <<cancelled, resultsChan, resultsClosed, rPC, output>>

\* main.go 113-126: the loop that makes one scan engine per worker.
UnitScannerFactory ==
    /\ unit.kind = "load" /\ unit.pc = "queues"
    /\ unit' = [unit EXCEPT
                  !.engines = [i \in 1..unit.loaded.cfg.Workers |->
                                 ScanEngine(unit.loaded.cfg, i)],
                  !.pc = "engines"]
    /\ UnitFrame
    /\ UNCHANGED <<cancelled, resultsChan, resultsClosed, rPC, output>>

\* main.go 140-145: the interrupt handler saves the checkpoint; saved is
\* the file written.
UnitSaveCheckpoint ==
    /\ unit.kind = "path" /\ unit.pc = "run"
    /\ unit' = [unit EXCEPT
                  !.saved = Resolve(unit.cwd,
                                    SavePath(unit.cwd, unit.getwdFails, unit.resume)),
                  !.pc = "saved"]
    /\ UnitFrame
    /\ UNCHANGED <<cancelled, resultsChan, resultsClosed, rPC, output>>

\* main.go 51-53: the later run loads the checkpoint; loaded is the file
\* read.
UnitLoadCheckpoint ==
    /\ unit.kind = "path" /\ unit.pc = "saved"
    /\ unit' = [unit EXCEPT
                  !.loaded = Resolve(unit.cwd, LoadPath(unit.resume)),
                  !.pc = "resumed"]
    /\ UnitFrame
    /\ UNCHANGED <<cancelled, resultsChan, resultsClosed, rPC, output>>

\* pinger.go 35: the range over hostJobChan receives a host.
PingWorkerReceive(w) ==
    /\ unit.kind = "pinger" /\ w \in 1..unit.workers
    /\ unit.wpc[w] = "range" /\ unit.hostJobChan # <<>>
    /\ unit' = [unit EXCEPT !.host[w] = Head(unit.hostJobChan),
                            !.hostJobChan = Tail(@),
                            !.wpc[w] = "ping"]
    /\ UnitFrame
    /\ UNCHANGED <<cancelled, resultsChan, resultsClosed, rPC, output>>

\* pinger.go 34-35 and 47-48: the range ends on the closed, empty channel
\* and the worker returns.
PingWorkerRangeEnd(w) ==
    /\ unit.kind = "pinger" /\ w \in 1..unit.workers
    /\ unit.wpc[w] = "range" /\ unit.hostJobChan = <<>>
    /\ unit' = [unit EXCEPT !.wpc[w] = "done"]
    /\ UnitFrame
    /\ UNCHANGED <<cancelled, resultsChan, resultsClosed, rPC, output>>

\* pinger.go 36-38 and 43-46: pingHostFunc returns within the timeout of its
\* context, true when the host replied in time.
PingWorkerPing(w) ==
    /\ unit.kind = "pinger" /\ w \in 1..unit.workers
    /\ unit.wpc[w] = "ping"
    /\ \E ok \in BOOLEAN :
          unit' = IF ok
                  THEN [unit EXCEPT !.pinged[unit.host[w]].ok = @ + 1,
                                    !.wpc[w] = "append"]
                  ELSE [unit EXCEPT !.pinged[unit.host[w]].failed = @ + 1,
                                    !.host[w] = 0,
                                    !.wpc[w] = "range"]
    /\ UnitFrame
    /\ UNCHANGED <<cancelled, resultsChan, resultsClosed, rPC, output>>

\* Mutant of PingWorkerAppend: the append starts from an empty slice, as an
\* unlocked append that loses the other workers' hosts.
PingWorkerAppendLosesOthers(w) ==
    /\ unit.kind = "pinger" /\ w \in 1..unit.workers
    /\ unit.wpc[w] = "append"
    /\ unit' = [unit EXCEPT !.reachableHosts = <<unit.host[w]>>,
                            !.host[w] = 0,
                            !.wpc[w] = "range"]
    /\ UnitFrame
    /\ UNCHANGED <<cancelled, resultsChan, resultsClosed, rPC, output>>

\* pinger.go 39-41: under the mutex the host is appended to reachableHosts.
PingWorkerAppend(w) ==
    /\ unit.kind = "pinger" /\ w \in 1..unit.workers
    /\ unit.wpc[w] = "append"
    /\ unit' = [unit EXCEPT !.reachableHosts = Append(@, unit.host[w]),
                            !.host[w] = 0,
                            !.wpc[w] = "range"]
    /\ UnitFrame
    /\ UNCHANGED <<cancelled, resultsChan, resultsClosed, rPC, output>>

\* pinger.go 51-53: wg.Wait() returns when every worker has returned, and
\* reachableHosts is returned.
PingerReturn ==
    /\ unit.kind = "pinger" /\ unit.pc = "wait"
    /\ \A w \in 1..unit.workers : unit.wpc[w] = "done"
    /\ unit' = [unit EXCEPT !.returned = unit.reachableHosts, !.pc = "returned"]
    /\ UnitFrame
    /\ UNCHANGED <<cancelled, resultsChan, resultsClosed, rPC, output>>

UnitNext ==
    \/ \E w \in Workers : PingWorkerReceive(w)
    \/ \E w \in Workers : PingWorkerRangeEnd(w)
    \/ \E w \in Workers : PingWorkerPing(w)
    \/ \E w \in Workers : PingWorkerAppend(w)
    \/ PingerReturn
    \/ UnitSaveCheckpoint
    \/ UnitLoadCheckpoint
    \/ UnitParseTargets
    \/ UnitLoad
    \/ UnitCheckPrivileges
    \/ UnitResolveTargets
    \/ UnitMakeQueues
    \/ UnitScannerFactory
    \/ UnitConnectScan
    \/ UnitSynScan
    \/ TestSend
    \/ TestClose
    \/ TestCancel
    \/ TestTrySend
    \/ TestWait
    \/ ReporterStart
    \/ ReporterReceive
    \/ ReporterClosed
    \/ ReporterCtxDone
    \/ ReporterDrain
    \/ ReporterDrainEnd
    \/ HandleCancel
    \/ HandleTasksClosed
    \/ HandleCtxDone
    \/ HandleReceive
    \/ HandleRangeEnd
    \/ HandleWriteFile
    \/ HandleRename

UnitSpec == UnitInit /\ [][UnitNext]_vars

\* The goroutines of FilterReachableHosts are scheduled while they can take a
\* step, and a ping returns when its context times out.
UnitFairness ==
    /\ \A w \in Workers :
          /\ WF_vars(PingWorkerReceive(w)) /\ WF_vars(PingWorkerRangeEnd(w))
          /\ WF_vars(PingWorkerPing(w)) /\ WF_vars(PingWorkerAppend(w))
    /\ WF_vars(PingerReturn)

UnitFairSpec == UnitInit /\ [][UnitNext]_vars /\ UnitFairness

\* ------------------------------------------------------ derived notions
Ids == 1..Len(targets)
HasResult(i) == pubCount[i] > 0
\* The rows of the output that report id i.
RowsOf(i) == {k \in 2..Len(output) : output[k].id = i}
Written(i) == RowsOf(i) # {}
AllWorkersDone == \A w \in Workers : wPC[w] = "done"
Held(i) == \E w \in Workers : wPC[w] \in {"scan", "publish"} /\ wTarget[w] = i

\* ---------------------------------------------------------------- claims

\* C1: after an interrupted run with a resume path configured, every target
\* of the target set has a ProbeResult, is in the final snapshot, or was
\* being probed by a worker when cancellation occurred.
C1_NoTargetLost ==
    (cfg.ResumeFile # "" /\ cancelled /\ hPC = "done" /\ AllWorkersDone) =>
        \A i \in Ids : \/ HasResult(i)
                       \/ i \in Range(remaining)
                       \/ i \in atCancel.probing

\* C2: in a run where no signal has arrived, the program comes to rest only
\* with main returned: once nothing but a signal can happen, every worker has
\* exited, the Results Queue is closed, the Reporter has finished and main
\* has returned.  A run ended by a fatal exit, of main or of the reporter,
\* is not one the claim is about.
C2_TerminatesWithoutInterrupt ==
    (/\ mainPC \notin {"start", "exit1"} /\ Running
     /\ ~cancelled /\ ~ENABLED ProgramStep) =>
        /\ AllWorkersDone
        /\ resultsClosed
        /\ rPC = "done"
        /\ mainPC = "done"

\* The safety half of C3: every result held, queued or written carries an
\* outcome of ScanStatus, and no dequeued target is published or written
\* more than once.
C3_ResultsWellFormed ==
    /\ \A k \in 1..Len(resultsChan) : resultsChan[k].Status \in ScanStatus
    /\ \A w \in Workers : wPC[w] = "publish" => wResult[w].Status \in ScanStatus
    /\ \A k \in 2..Len(output) : output[k].status # ""
    /\ \A i \in 1..MaxTargets :
          /\ pubCount[i] <= 1
          /\ Cardinality(RowsOf(i)) <= pubCount[i]
          /\ HasResult(i) => i \in dequeued

\* C3 as claimed: every result carries a non-empty outcome, no target
\* instance is published or consumed more than once, and every target
\* dequeued by a worker eventually has exactly one record written by the
\* Reporter, unless cancellation is signalled while its result is still
\* unpublished.
C3_ExactlyOneResult ==
    /\ []C3_ResultsWellFormed
    /\ \A i \in 1..MaxTargets :
          (i \in dequeued) ~>
              (Cardinality(RowsOf(i)) = 1 \/ (cancelled /\ ~HasResult(i)))

\* C3 as amended: the same, unless the Reporter could not create the output
\* file and has ended the process.
C3_ExactlyOneResultOrFatalExit ==
    /\ []C3_ResultsWellFormed
    /\ \A i \in 1..MaxTargets :
          (i \in dequeued) ~>
              \/ Cardinality(RowsOf(i)) = 1
              \/ cancelled /\ ~HasResult(i)
              \/ ~Running

\* A dequeued target whose record has been written in an uncancelled run.
C3_Witness ==
    \E i \in Ids : i \in dequeued /\ Written(i) /\ ~cancelled

\* C4 as claimed: the result of a probe that was running when cancellation
\* was signalled is never dropped; once its worker has let go of the target
\* the result has been published.
C4_InFlightNeverDropped ==
    \A i \in atCancel.probing : ~Held(i) => HasResult(i)

\* What C4 as amended asks of one step of worker w.
C4_StepOf(w) ==
    /\ wPC[w] = "scan" /\ wPC'[w] # "scan" =>
          /\ wPC'[w] = "publish"
          /\ wResult'[w].id = wTarget[w]
          /\ wResult'[w].Target = targets[wTarget[w]]
    /\ wPC[w] = "publish" /\ wPC'[w] # "publish" =>
          \/ /\ wPC'[w] = "select"
             /\ resultsChan' = Append(resultsChan, wResult[w])
          \/ /\ wPC'[w] = "done"
             /\ cancelled
             /\ resultsChan' = resultsChan

\* C4 as amended: a worker that holds a target finishes its probe, and the
\* result it then holds is either sent to the Results Queue (the worker goes
\* on) or dropped with the worker exiting, the latter only after cancellation.
C4_PublishedOrDroppedOnCancel == [][\A w \in Workers : C4_StepOf(w)]_vars

\* A probe that was running at cancel() and whose result was published.
C4_Witness ==
    \E i \in atCancel.probing : HasResult(i) /\ ~Held(i)

\* C5: once cancellation is set no worker dequeues a target.
C5_NoDequeueAfterCancel == [][cancelled => dequeued' = dequeued]_vars

\* C6: once cancellation is set the producer enqueues no further target.
C6_NoEnqueueAfterCancel == [][cancelled => prodIdx' = prodIdx]_vars

\* C7: when the interrupt arrives with targets in the Task Queue that no
\* worker goes on to take, the handler hands a snapshot containing those
\* targets to SaveState, whatever the configuration.
C7_CheckpointAlwaysSaved ==
    (hPC = "done" /\ atCancel.queued \ dequeued # {}) =>
        /\ Len(saveCalls) > 0
        /\ (atCancel.queued \ dequeued) \subseteq Range(saveCalls[1])

\* C8: with a resume path and a queue capacity of at least N, an interrupt
\* that fires when all N targets are enqueued and k of them were dispatched
\* yields a snapshot of exactly the N-k others.
C8_CheckpointIsTheRest ==
    (/\ hPC = "done"
     /\ cfg.ResumeFile # ""
     /\ cfg.QueueSize >= Len(targets)
     /\ atCancel.queued \cup atCancel.dequeued = Ids) =>
        Range(remaining) = Ids \ atCancel.dequeued

\* What C9 asks of one list of drained ids.
C9_SnapshotOf(rem) ==
    /\ \A k \in 1..Len(rem) : rem[k] < prodIdx /\ rem[k] \notin dequeued
    /\ IsDupFree(targets) =>
          \A i \in Ids : HasResult(i) => targets[i] \notin Range(Snapshot(rem))

\* C9: every target of the snapshot was enqueued and never dequeued by a
\* worker, and for a duplicate-free target list no target of the snapshot
\* has a ProbeResult; the same holds of every snapshot handed to SaveState.
C9_SnapshotNeverDispatched ==
    /\ C9_SnapshotOf(remaining)
    /\ \A n \in 1..Len(saveCalls) : C9_SnapshotOf(saveCalls[n])

\* An interrupted run that saved a snapshot after some result was published.
C9_Witness ==
    /\ hPC = "done"
    /\ Len(saveCalls) > 0
    /\ \E i \in Ids : HasResult(i)

\* C10: with a resume path and usable address/port inputs, a missing or
\* corrupt checkpoint file makes the run fall back to a fresh scan of the
\* targets derived from the inputs.
C10_FallbackToFreshScan ==
    (/\ mainPC # "start"
     /\ cfg.ResumeFile # ""
     /\ ckptFile.state \in {"missing", "corrupt"}
     /\ ~inputTargets.err
     /\ Len(inputTargets.targets) > 0) =>
        /\ mainPC # "exit1"
        /\ targets = inputTargets.targets

\* Two target lists hold the same targets, whatever their order.
C11_SameTargets(a, b) ==
    /\ Range(a) = Range(b)
    /\ \A t \in Range(a) :
          Cardinality({i \in 1..Len(a) : a[i] = t}) =
          Cardinality({i \in 1..Len(b) : b[i] = t})

\* The targets of a snapshot's [ip, port] pairs.
C11_TargetsOf(rem) == [i \in 1..Len(rem) |-> ScanTarget(rem[i][1], rem[i][2])]

\* C11: a snapshot saved with the targets T and then loaded yields exactly
\* the targets T, in any order, none added, dropped or altered: the later
\* run that loads the whole file checkpoint.Handle wrote gets, without
\* error, the targets the handler drained.
C11_CheckpointRoundTrip ==
    (unit.kind = "handle" /\ unit.pc = "resumed" /\ unit.final.state = "valid") =>
       /\ unit.final.remaining = unit.rem
       /\ ~unit.loaded.err
       /\ C11_SameTargets(unit.loaded.targets, C11_TargetsOf(unit.rem))

\* The second half of C11 in main.go 53-62: a run started with a resume path
\* and a snapshot that LoadState returns scans exactly the targets returned.
C11_LoadedListUsed ==
    [][(mainPC = "start" /\ mainPC' # "start" /\ cfg.ResumeFile # ""
          /\ ~cfg.LoadErr /\ ~LoadState(ckptFile).err) =>
             targets' = LoadState(ckptFile).targets]_vars

\* C12: once a run has loaded its snapshot, the checkpoint file is gone from
\* disk until the run itself saves a new one.
C12_CheckpointSingleUse ==
    (/\ mainPC \notin {"start", "exit1"}
     /\ cfg.ResumeFile # ""
     /\ saveCalls = <<>>) =>
        ckptFile.state = "missing"

\* The results for id i that sit in the Results Queue.
C13_Buffered(i) == {k \in 1..Len(resultsChan) : resultsChan[k].id = i}

\* C13: no result sent to the Results Queue disappears: each is either still
\* buffered or written to the output; and the Reporter, cancelled or not,
\* returns only when the queue is closed and empty, so that every result
\* ever enqueued is then in the output.
C13_EnqueuedResultsWritten ==
    /\ \A i \in 1..MaxTargets :
          pubCount[i] = Cardinality(RowsOf(i)) + Cardinality(C13_Buffered(i))
    /\ rPC = "done" =>
          /\ resultsClosed
          /\ resultsChan = <<>>
          /\ \A i \in 1..MaxTargets : Cardinality(RowsOf(i)) = pubCount[i]

\* The Reporter has returned after a cancellation, and the output holds the
\* result of a probe that was still running when cancellation was signalled.
C13_Witness ==
    /\ cancelled
    /\ rPC = "done"
    /\ \E i \in atCancel.probing : Written(i)

\* Every component has stopped: the producer has returned and the Task Queue
\* is closed, the handler's drain loop has ended, every worker has exited,
\* the Results Queue is closed, the Reporter and main have returned.
C14_ShutdownComplete ==
    /\ prodPC = "done" /\ taskClosed
    /\ hPC = "done"
    /\ AllWorkersDone
    /\ resultsClosed
    /\ rPC = "done"
    /\ mainPC = "done"

\* C14 as claimed: under fair scheduling, with probes that return, an
\* interrupt is eventually followed by the complete shutdown of every
\* component.
C14_ShutdownEventuallyCompletes == cancelled ~> C14_ShutdownComplete

\* C14 as amended: an interrupt is eventually followed by the complete
\* shutdown of every component, or by the fatal exit of a Reporter that
\* could not create the output file; no component stays blocked forever.
C14_ShutdownCompletesOrFatalExit ==
    cancelled ~> (C14_ShutdownComplete \/ ~Running)

\* An interrupted run that was cancelled while a worker held a target and
\* has shut down completely.
C14_Witness ==
    /\ cancelled
    /\ C14_ShutdownComplete
    /\ atCancel.probing # {}

\* C15: the Task Queue never holds more targets than its capacity.
C15_TaskQueueWithinCapacity == Len(taskQueue) <= cfg.QueueSize

\* The Task Queue is full and the producer still has a target to send.
C15_Witness ==
    /\ prodPC = "feed"
    /\ prodIdx <= Len(targets)
    /\ Len(taskQueue) = cfg.QueueSize

\* The producer has a target to send and the Task Queue has no room for it.
C16_FullPending ==
    /\ prodPC = "feed"
    /\ prodIdx <= Len(targets)
    /\ Len(taskQueue) >= cfg.QueueSize

\* This step is a worker receiving the head of the Task Queue.
C16_WorkerDequeues ==
    /\ taskQueue # <<>>
    /\ taskQueue' = Tail(taskQueue)
    /\ \E w \in Workers : wPC[w] = "select" /\ wPC'[w] = "scan"
                            /\ wTarget'[w] = Head(taskQueue)

\* This step is the interrupt handler's drain loop receiving the head of the
\* Task Queue.
C16_HandlerDrains ==
    /\ taskQueue # <<>>
    /\ taskQueue' = Tail(taskQueue)
    /\ remaining' = Append(remaining, Head(taskQueue))

\* C16 as claimed: while the Task Queue is full the producer enqueues
\* nothing, and the producer waiting on the full queue stops waiting only in
\* a step in which a worker dequeues a target.
C16_UnblockedOnlyByWorker ==
    [][C16_FullPending =>
          /\ prodIdx' = prodIdx
          /\ ~C16_FullPending' => C16_WorkerDequeues]_vars

\* C16 as amended: while the Task Queue is full the producer enqueues
\* nothing and no queued target is displaced; the producer waiting on the
\* full queue stops waiting only when a worker or the interrupt handler's
\* drain loop receives a target, or when, after cancellation, the producer
\* returns without enqueueing.
C16_Backpressure ==
    [][C16_FullPending =>
          /\ prodIdx' = prodIdx
          /\ taskQueue' \in {taskQueue, Tail(taskQueue)}
          /\ ~C16_FullPending' =>
                \/ C16_WorkerDequeues
                \/ cancelled /\ C16_HandlerDrains
                \/ cancelled /\ prodPC' = "done" /\ taskQueue' = taskQueue]_vars

\* An uncancelled run in which the producer has sent more targets than the
\* queue has room for: it had to wait for a worker.
C16_Witness ==
    /\ ~cancelled
    /\ prodIdx > cfg.QueueSize + 1

\* C17: the Task Queue is closed by the producer's return and by nothing
\* else; that return finds the queue open, so it is never closed a second
\* time; once closed it stays closed and nothing is sent to it.
C17_TaskQueueClosedOnce ==
    [][/\ (~taskClosed /\ taskClosed') => (prodPC = "feed" /\ prodPC' = "done")
       /\ (prodPC = "feed" /\ prodPC' = "done") => (~taskClosed /\ taskClosed')
       /\ taskClosed =>
             /\ taskClosed'
             /\ prodPC = "done" /\ prodPC' = "done"
             /\ prodIdx' = prodIdx
             /\ Len(taskQueue') <= Len(taskQueue)]_vars

\* The queue was closed on the interrupt path, with a target still unsent,
\* and the handler's drain loop has ended on it.
C17_Witness ==
    /\ cancelled
    /\ taskClosed
    /\ prodIdx <= Len(targets)
    /\ hPC = "done"

\* What C18 asks of a step in which worker w exits before any cancellation:
\* it exits from its select, on the closed and empty queue, without taking
\* or probing a target.
C18_ExitOf(w) ==
    (wPC[w] # "done" /\ wPC'[w] = "done" /\ ~cancelled) =>
        /\ wPC[w] = "select"
        /\ taskClosed
        /\ taskQueue = <<>>
        /\ UNCHANGED <<taskQueue, dequeued, netCalls, resultsChan>>

\* C18 as claimed: without cancellation a worker exits only on observing
\* the end of the closed Task Queue, probing nothing as it does; and once
\* the queue is closed the workers go on to process every buffered target
\* and then all exit (unless a cancellation intervenes).
C18_WorkersDrainClosedQueue ==
    /\ [][\A w \in Workers : C18_ExitOf(w)]_vars
    /\ (taskClosed /\ ~cancelled) ~>
          \/ cancelled
          \/ /\ AllWorkersDone
             /\ taskQueue = <<>>
             /\ \A i \in Ids : HasResult(i)

\* C18 as amended: the same, unless a cancellation intervenes or the
\* Reporter could not create the output file and has ended the process.
C18_WorkersDrainOrFatalExit ==
    /\ [][\A w \in Workers : C18_ExitOf(w)]_vars
    /\ (taskClosed /\ ~cancelled) ~>
          \/ cancelled
          \/ ~Running
          \/ /\ AllWorkersDone
             /\ taskQueue = <<>>
             /\ \A i \in Ids : HasResult(i)

\* An uncancelled run of two targets in which every worker has exited and
\* every target has its result.
C18_Witness ==
    /\ ~cancelled
    /\ AllWorkersDone
    /\ Len(targets) = 2
    /\ \A i \in Ids : HasResult(i)

\* The data records of the output file that report id i as a dry run of its
\* target.
C19_DryRunRecords(i) ==
    {k \in 2..Len(FileRecords) :
        /\ FileRecords[k].id = i
        /\ FileRecords[k].dst_ip = targets[i].IP
        /\ FileRecords[k].dst_port = targets[i].Port
        /\ FileRecords[k].status = StatusDryRun}

\* C19: when an uninterrupted dry run has come to rest, the output file
\* holds the header and exactly one DRYRUN record per target, and no network
\* call (prefilter ping or scan) has been made.  A run ended by a fatal
\* exit, of main or of the reporter, is not one the claim is about.
C19_DryRunWritesEveryTarget ==
    (/\ cfg.DryRun
     /\ mainPC \notin {"start", "exit1"} /\ Running
     /\ ~cancelled
     /\ ~ENABLED ProgramStep) =>
        /\ netCalls = [ping |-> FALSE, scans |-> {}]
        /\ Len(FileRecords) = Len(targets) + 1
        /\ \A i \in Ids : Cardinality(C19_DryRunRecords(i)) = 1

\* The result a dry run yields for the target of id i.
C20_DryRunResult(i) ==
    [id |-> i, Target |-> targets[i], Status |-> StatusDryRun,
     Latency |-> 0, Error |-> FALSE]

\* C20: in dry-run mode every probe step of a worker, however often the
\* same target comes up, yields the DRYRUN result of the target it holds,
\* with no error and zero latency, and invokes no Scan.
C20_DryRunIdempotent ==
    [][cfg.DryRun =>
          \A w \in Workers :
             (wPC[w] = "scan" /\ wPC'[w] # "scan") =>
                 /\ wPC'[w] = "publish"
                 /\ wResult'[w] = C20_DryRunResult(wTarget[w])
                 /\ netCalls' = netCalls]_vars

\* A dry run of a list naming the same target twice, both results published.
C20_Witness ==
    /\ cfg.DryRun
    /\ targets = DupList
    /\ pubCount[1] = 1
    /\ pubCount[2] = 1

\* C21: the Reporter writes to the end of the output, and only the record
\* of the result it receives: whenever a result leaves the Results Queue, in
\* the receive loop or in the drain loop, it is the head of the queue and its
\* record is appended after everything written before.
C21_ReporterFIFO ==
    [][/\ output # <<>> =>
             \/ output' = output
             \/ /\ resultsChan # <<>>
                /\ resultsChan' = Tail(resultsChan)
                /\ output' = Append(output, ToCSVRow(Head(resultsChan)))
       /\ Len(resultsChan') < Len(resultsChan) =>
             /\ resultsChan' = Tail(resultsChan)
             /\ output' = Append(output, ToCSVRow(Head(resultsChan)))]_vars

\* After a cancellation the output holds two records in the order they were
\* received, the second that of a probe still running at the cancellation.
C21_Witness ==
    /\ cancelled
    /\ Len(output) = 3
    /\ output[2].id \notin atCancel.probing
    /\ output[3].id \in atCancel.probing

\* The number of results the Reporter has received.
C22_Received ==
    LET n[i \in 0..MaxTargets] ==
            IF i = 0 THEN 0
            ELSE n[i - 1] + pubCount[i] - Cardinality(C13_Buffered(i))
    IN n[MaxTargets]

\* C22: the Reporter receives nothing before it has written the header; the
\* header is the first record of what it has written and of what the file
\* holds, every other record is a result, and an output with R results
\* received has R+1 records, also in a run whose results were all dropped.
C22_HeaderFirst ==
    /\ rPC \in {"idle", "create"} => output = <<>> /\ C22_Received = 0
    /\ rPC \in {"loop", "drain", "done"} =>
          /\ Len(output) = C22_Received + 1
          /\ output[1] = CSVHeader
          /\ \A k \in 2..Len(output) : output[k].id \in Ids
    /\ FileRecords # <<>> => FileRecords[1] = CSVHeader
    /\ rPC = "done" => Len(FileRecords) = C22_Received + 1

\* The Reporter has returned from a cancelled run in which no result was
\* produced: the file holds the header alone.
C22_Witness ==
    /\ rPC = "done"
    /\ \A i \in 1..MaxTargets : pubCount[i] = 0
    /\ FileRecords = <<CSVHeader>>

\* The records of results received that have not reached the output file.
C23_Unflushed == {k \in 2..Len(output) : k > Len(FileRecords)}

\* C23: at any moment at most one received record has not yet been flushed
\* to the output file.
C23_FlushedPerRecord == Cardinality(C23_Unflushed) <= 1

\* C24: after the context is cancelled Reporter.Run returns, also when the
\* results channel was still open at the cancellation, and the output file
\* then holds at least the header.  In a finite run: as long as Run has not
\* returned after a cancellation, the reporter or the code that started it
\* can take a step, and once Run has returned the file has a first record.
C24_ReturnsAfterCancel ==
    unit.kind = "reporter" =>
       /\ (cancelled /\ rPC # "done") => ENABLED ReporterTestStep
       /\ rPC = "done" => Len(FileRecords) >= 1 /\ FileRecords[1] = CSVHeader

\* C25: a checkpoint is written at most once in a run, and only by the
\* interrupt handler at the end of its drain loop, after cancellation;
\* without an interrupt the checkpoint file is never touched.
C25_CheckpointOnlyOnInterrupt ==
    [][/\ Len(saveCalls') <= 1
       /\ (saveCalls' # saveCalls \/ ckptFile' # ckptFile) =>
             /\ cancelled
             /\ hPC = "drain" /\ hPC' = "done"
             /\ saveCalls = <<>>
             /\ Len(saveCalls') = 1]_vars

\* An interrupted run that wrote its one checkpoint and then terminated.
C25_Witness ==
    /\ cancelled
    /\ Len(saveCalls) = 1
    /\ mainPC = "done"

\* C26: checkpoint.Handle renames the temporary file to the final name only
\* after the write has fully succeeded: the file under the final name is
\* never a partially written one.
C26_NoPartialCheckpoint ==
    unit.kind = "handle" => unit.final.state \in {"missing", "valid"}

\* C27: ConnectScanner.Scan returns OPEN without error exactly when the dial
\* succeeds, FILTERED with the error exactly when the dial times out, and
\* CLOSED with an error on every other dial failure; the result's target is
\* the input target.
C27_ConnectClassification ==
    (unit.kind = "scan" /\ unit.strategy = "connect" /\ unit.pc = "returned") =>
       LET r == unit.result
           d == DialOutcome(unit.target)
       IN /\ r.Target = unit.target
          /\ (r.Status = StatusOpen /\ ~r.Error) <=> d = "ok"
          /\ (r.Status = StatusFiltered /\ r.Error) <=> d = "timeout"
          /\ d \notin {"ok", "timeout"} => r.Status = StatusClosed /\ r.Error

\* A connect scan that has returned FILTERED for a dial that timed out.
C27_Witness ==
    /\ unit.kind = "scan" /\ unit.strategy = "connect" /\ unit.pc = "returned"
    /\ DialOutcome(unit.target) = "timeout"
    /\ unit.result.Status = StatusFiltered

\* C28: a probe of a malformed target address is classified ERROR, with the
\* error attached, by every strategy.
C28_MalformedIsError ==
    (unit.kind = "scan" /\ unit.pc = "returned" /\ ~ValidIP(unit.target)) =>
       unit.result.Status = StatusError /\ unit.result.Error

\* The positions of the replies that come from the target's address and are
\* TCP segments addressed to the scanner's source port.
C29_Matching(t, replies) ==
    {k \in 1..Len(replies) : MatchingReply(replies[k], t, SrcPort)}

\* A reply from another address or to another port.
C29_Foreign(t, p) == p.From # t.IP \/ (p.TCP /\ p.DstPort # SrcPort)

\* The replies without those from other addresses or to other ports.
C29_WithoutForeign(t, replies) ==
    LET Keep(p) == ~C29_Foreign(t, p) IN SelectSeq(replies, Keep)

\* C29: SynScanner.Scan returns ERROR with an error for an invalid address or
\* a failed socket or serialization call; otherwise the first matching reply
\* decides, SYN+ACK as OPEN and RST (without SYN+ACK) as CLOSED, both
\* without error; with no matching reply the read deadline gives FILTERED
\* without error and any other read error ERROR with the error; and the
\* result is the same as without the replies from other addresses or to
\* other ports.
C29_SynClassification ==
    (unit.kind = "scan" /\ unit.strategy = "syn" /\ unit.pc = "returned") =>
       LET r == unit.result
           t == unit.target
           e == unit.env
           M == C29_Matching(t, e.replies)
           first == e.replies[CHOOSE k \in M : \A j \in M : k <= j]
       IN /\ r.Target = t
          /\ (~ValidIP(t) \/ e.fail \in SynStages) =>
                r.Status = StatusError /\ r.Error
          /\ (ValidIP(t) /\ e.fail = "none") =>
                /\ (M # {} /\ first.SYN /\ first.ACK) =>
                      r.Status = StatusOpen /\ ~r.Error
                /\ (M # {} /\ first.RST /\ ~(first.SYN /\ first.ACK)) =>
                      r.Status = StatusClosed /\ ~r.Error
                /\ (M = {} /\ e.readErr = "timeout") =>
                      r.Status = StatusFiltered /\ ~r.Error
                /\ (M = {} /\ e.readErr # "timeout") =>
                      r.Status = StatusError /\ r.Error
                /\ r = SynScan(1, t, SrcPort,
                               [e EXCEPT !.replies = C29_WithoutForeign(t, @)])

\* A SYN scan that skipped a SYN+ACK addressed to another port and returned
\* CLOSED for the RST that followed it.
C29_Witness ==
    /\ unit.kind = "scan" /\ unit.strategy = "syn" /\ unit.pc = "returned"
    /\ Len(unit.env.replies) = 2
    /\ C29_Foreign(unit.target, unit.env.replies[1])
    /\ unit.env.replies[1].From = unit.target.IP
    /\ unit.env.replies[1].SYN /\ unit.env.replies[1].ACK
    /\ MatchingReply(unit.env.replies[2], unit.target, SrcPort)
    /\ unit.env.replies[2].RST
    /\ unit.result.Status = StatusClosed

\* C30: every result a scan returns carries one outcome of the set
\* {OPEN, CLOSED, FILTERED, ERROR, DRYRUN}; the outcome is never empty.
C30_OutcomeSet ==
    (unit.kind = "scan" /\ unit.pc = "returned") =>
       unit.result.Status \in ScanStatus

\* C33: latency is measured on every probe, also on failure: every result a
\* scan returns, on every return path, has a latency set, the time elapsed
\* since the probe started, which is positive.
C33_LatencyMeasured ==
    (unit.kind = "scan" /\ unit.pc = "returned") => unit.result.Latency > 0

\* The command line of a finished config.Load is one the claim rejects: --ip
\* or --port empty, a worker count that is not positive, or a scan type that
\* is neither connect nor syn.
C32_Rejected(a) ==
    \/ Flag(a.ip, "") = "" \/ Flag(a.port, "") = ""
    \/ Flag(a.worker, 1) <= 0
    \/ Flag(a.scantype, "connect") \notin {"connect", "syn"}

\* C32: config.Load returns an error and no configuration exactly for the
\* rejected command lines; for every other one it returns, without error,
\* a configuration whose fields are the values given, or the defaults.
C32_LoadContract ==
    (unit.kind = "load" /\ unit.pc # "call") =>
       LET a == unit.args
           r == unit.loaded
       IN /\ r.err # "" <=> C32_Rejected(a)
          /\ r.err # "" => r.cfg = NoConfig
          /\ r.err = "" =>
                /\ r.cfg.IPInput = a.ip.val /\ r.cfg.PortInput = a.port.val
                /\ r.cfg.Workers = Flag(a.worker, 1)
                /\ r.cfg.Timeout = Flag(a.timeout, 100) * Millisecond
                /\ r.cfg.Delay = Flag(a.delay, 100) * Millisecond
                /\ r.cfg.QueueSize = IF Flag(a.queue, 0) = 0
                                     THEN r.cfg.Workers * QueuePerWorker
                                     ELSE a.queue.val
                /\ r.cfg.DryRun = Flag(a.dryrun, FALSE)
                /\ r.cfg.ResumeFile = Flag(a.resume, "")
                /\ r.cfg.OutputFile = Flag(a.output, "results.csv")
                /\ r.cfg.ScanType = Flag(a.scantype, "connect")
                /\ r.cfg.Ping = Flag(a.ping, TRUE)
                /\ r.cfg.LogLevel = Flag(a.loglevel, "INFO")
                /\ r.cfg.LogFile = "portRunner.log"
                /\ r.cfg.MinSourcePort = MinSourcePort

\* config.Load has rejected --worker=0 given with --ip and --port and a
\* valid scan type.
C32_Witness ==
    /\ unit.kind = "load" /\ unit.pc = "exit1"
    /\ unit.args.ip.set /\ unit.args.port.set
    /\ unit.args.worker = Given(0)
    /\ unit.args.scantype = Given("syn")
    /\ unit.loaded.cfg = NoConfig

\* C34: the scan engine is chosen by the configuration: with the selector
\* syn every worker has a SYN engine and any two workers have different
\* source ports; with connect every worker has a connect engine.
C34_StrategyByConfig ==
    (unit.kind = "load" /\ unit.pc = "engines") =>
       LET c == unit.loaded.cfg
           e == unit.engines
       IN /\ Len(e) = c.Workers
          /\ c.ScanType = "syn" =>
                /\ \A i \in 1..Len(e) : e[i].strategy = "syn"
                /\ \A i, j \in 1..Len(e) : i # j => e[i].srcPort # e[j].srcPort
          /\ c.ScanType = "connect" =>
                \A i \in 1..Len(e) : e[i].strategy = "connect"

\* C39: every configuration config.Load accepts has a strictly positive
\* queue capacity, --queue when it is not zero and workers x 1024 otherwise,
\* and making the two queues with it succeeds.
C39_QueueSizePositive ==
    /\ (unit.kind = "load" /\ unit.pc # "call" /\ unit.loaded.err = "") =>
          /\ unit.loaded.cfg.QueueSize > 0
          /\ unit.loaded.cfg.QueueSize =
                IF Flag(unit.args.queue, 0) # 0 THEN unit.args.queue.val
                ELSE unit.loaded.cfg.Workers * QueuePerWorker
    /\ unit.kind = "load" => unit.pc # "panic"

\* C38: the file the interrupt handler saves the checkpoint to is the file
\* a later run given the same --resume value loads it from, for a relative
\* and for a rooted value, the working directory being the same.
C38_SavePathIsLoadPath ==
    (unit.kind = "path" /\ unit.pc = "resumed") => unit.saved = unit.loaded

\* C35: when configuration loading fails, IP or port parsing fails, or the
\* resulting target list is empty, main exits with status 1, and at that
\* exit the reporter, the workers, the producer and the interrupt handler
\* have not been started and nothing has been enqueued.
C35_FatalBeforeStart ==
    /\ (/\ mainPC # "start"
        /\ \/ cfg.LoadErr
           \/ cfg.ResumeFile = "" /\ inputTargets.err
           \/ targets = <<>>) => mainPC = "exit1"
    /\ mainPC = "exit1" =>
          /\ rPC = "idle" /\ output = <<>>
          /\ \A w \in Workers : wPC[w] = "idle"
          /\ prodPC = "idle" /\ hPC = "idle"
          /\ taskQueue = <<>> /\ resultsChan = <<>> /\ dequeued = {}
          /\ netCalls.scans = {}

\* main has exited because config.Load failed.
C35_Witness == mainPC = "exit1" /\ cfg.LoadErr

\* C36: the Results Queue is closed only when every worker has returned and
\* the interrupt handler has finished, and once it is closed no result is
\* sent on it.
C36_NoSendAfterClose ==
    [][/\ (~resultsClosed /\ resultsClosed') =>
             /\ AllWorkersDone
             /\ hPC = "done"
       /\ resultsClosed =>
             /\ Len(resultsChan') <= Len(resultsChan)
             /\ pubCount' = pubCount
             /\ \A w \in Workers : wPC'[w] = "done"]_vars

\* The Results Queue has been closed in a run in which a worker published a
\* result.
C36_Witness ==
    /\ resultsClosed
    /\ \E i \in Ids : pubCount[i] > 0
    /\ AllWorkersDone

\* The places in which the enqueued target i waits or is held: the Task
\* Queue, the workers, the interrupt handler's list.
C37_Places(i) ==
    Cardinality({k \in 1..Len(taskQueue) : taskQueue[k] = i})
    + Cardinality({w \in Workers : wTarget[w] = i})
    + Cardinality({k \in 1..Len(remaining) : remaining[k] = i})

\* Each enqueued target is with at most one consumer and is then not yet
\* published; its result is in the Results Queue or in the output at most
\* once; every record reports a target of the target list, and for a
\* duplicate-free list no two records report the same target.
C37_OneConsumer ==
    /\ \A i \in 1..MaxTargets :
          /\ C37_Places(i) <= 1
          /\ C37_Places(i) = 1 => i < prodIdx /\ pubCount[i] = 0
          /\ Cardinality(RowsOf(i)) + Cardinality(C13_Buffered(i)) <= 1
    /\ \A k \in 2..Len(output) :
          /\ output[k].id \in Ids
          /\ output[k].dst_ip = targets[output[k].id].IP
          /\ output[k].dst_port = targets[output[k].id].Port
    /\ IsDupFree(targets) =>
          \A k, l \in 2..Len(output) :
             (output[k].dst_ip = output[l].dst_ip
              /\ output[k].dst_port = output[l].dst_port) => k = l

\* C37: each enqueued target is dequeued by at most one consumer, a worker
\* or the interrupt handler, and each published result is consumed by the
\* Reporter once; no target is probed twice, and the output has at most one
\* record per target of a duplicate-free list, each for a target of the list.
C37_DequeuedAndConsumedOnce ==
    [][/\ C37_OneConsumer'
       /\ \A w \in Workers :
             (wPC[w] = "scan" /\ wPC'[w] = "publish") =>
                wTarget[w] \notin netCalls.scans
       /\ Len(taskQueue') < Len(taskQueue) =>
             \/ /\ remaining' = Append(remaining, Head(taskQueue))
                /\ wTarget' = wTarget
             \/ /\ remaining' = remaining
                /\ \E w \in Workers :
                      /\ wTarget'[w] = Head(taskQueue)
                      /\ \A v \in Workers \ {w} : wTarget'[v] = wTarget[v]]_vars

\* An interrupted run over two different targets: one was probed by a
\* worker and its record written, the other was drained by the handler.
C37_Witness ==
    /\ cancelled
    /\ IsDupFree(targets) /\ Len(targets) = 2
    /\ Len(remaining) = 1
    /\ Len(output) = 2
    /\ output[2].id # remaining[1]

\* The pings of FilterReachableHosts so far: no host has been pinged more
\* often than it occurs in the input, and reachableHosts holds no host more
\* often than a ping of it succeeded.  After the return every input host has
\* been pinged once per occurrence, and the hosts returned are, as a multiset,
\* those whose ping succeeded.
C31_Pings ==
    unit.kind = "pinger" =>
       \A h \in PingHosts :
          /\ unit.pinged[h].ok + unit.pinged[h].failed <= Count(unit.hosts, h)
          /\ Count(unit.reachableHosts, h) <= unit.pinged[h].ok
          /\ unit.pc = "returned" =>
                /\ unit.pinged[h].ok + unit.pinged[h].failed = Count(unit.hosts, h)
                /\ Count(unit.returned, h) = unit.pinged[h].ok
                /\ Len(unit.returned) <= Len(unit.hosts)

\* C31: FilterReachableHosts returns, for every host list and every worker
\* count from 1; it pings each input host once and returns exactly the hosts
\* whose ping succeeded, none lost, duplicated or added by the workers.
C31_FilterReachableHosts ==
    /\ []C31_Pings
    /\ (unit.kind = "pinger") ~> (unit.kind = "pinger" /\ unit.pc = "returned")

\* FilterReachableHosts has returned one of two hosts pinged by two workers.
C31_Witness ==
    /\ unit.kind = "pinger" /\ unit.pc = "returned"
    /\ unit.workers = 2
    /\ unit.hosts = <<1, 2>>
    /\ unit.returned = <<2>>

====
